---- MODULE Spec2Model ----
(***************************************************************************)
(* Model of the object-style validation engine of shugen002/validation:    *)
(* the Factory (factory.go) that parses rule specifications into chains of *)
(* Rule objects, and the validator (validator.go) that runs the chains     *)
(* over a data record and collects messages in an ErrorBag.                *)
(*                                                                         *)
(* Go strings are TLA+ strings handled one character at a time, Go maps    *)
(* are functions whose DOMAIN is the key set, Go slices are sequences.     *)
(* A Go interface{} value is a record tagged by its dynamic kind.          *)
(***************************************************************************)
EXTENDS Integers, Sequences, FiniteSets, TLC

\* Longest rule chain written for the field under test in one specification.
MaxChain == 2

(***************************************************************************)
(* package strings                                                         *)
(***************************************************************************)
CharAt(s, i) == SubSeq(s, i, i)

UpperLetters == "ABCDEFGHIJKLMNOPQRSTUVWXYZ"

LowerLetters == "abcdefghijklmnopqrstuvwxyz"

Digits == "0123456789"

CharsOf(chars) == {CharAt(chars, i) : i \in 1..Len(chars)}

UpperSet == CharsOf(UpperLetters)

LetterSet == CharsOf(UpperLetters) \cup CharsOf(LowerLetters)

DigitSet == CharsOf(Digits)

\* unicode.IsLetter and unicode.IsDigit on the ASCII range.
IsLetter(c) == c \in LetterSet

IsDigit(c) == c \in DigitSet

IsSpace(c) == c = " "

HasPrefix(s, p) == Len(s) >= Len(p) /\ SubSeq(s, 1, Len(p)) = p

HasSuffix(s, p) == Len(s) >= Len(p) /\ SubSeq(s, Len(s) - Len(p) + 1, Len(s)) = p

TrimSuffix(s, p) == IF HasSuffix(s, p) THEN SubSeq(s, 1, Len(s) - Len(p)) ELSE s

\* strings.Index: position of the first occurrence of sep in s, 0 if none.
Index(s, sep) ==
  LET hits == {i \in 1..(Len(s) - Len(sep) + 1) : SubSeq(s, i, i + Len(sep) - 1) = sep}
  IN IF hits = {} THEN 0 ELSE CHOOSE i \in hits : \A j \in hits : i <= j

Contains(s, sep) == Index(s, sep) > 0

RECURSIVE Split(_, _)
Split(s, sep) ==
  LET i == Index(s, sep)
  IN IF i = 0 THEN <<s>>
     ELSE <<SubSeq(s, 1, i - 1)>> \o Split(SubSeq(s, i + Len(sep), Len(s)), sep)

\* strings.SplitN(s, sep, 2)
SplitN2(s, sep) ==
  LET i == Index(s, sep)
  IN IF i = 0 THEN <<s>>
     ELSE <<SubSeq(s, 1, i - 1), SubSeq(s, i + Len(sep), Len(s))>>

RECURSIVE TrimLeft(_)
TrimLeft(s) == IF Len(s) > 0 /\ IsSpace(CharAt(s, 1)) THEN TrimLeft(Tail(s)) ELSE s

RECURSIVE TrimRight(_)
TrimRight(s) ==
  IF Len(s) > 0 /\ IsSpace(CharAt(s, Len(s))) THEN TrimRight(SubSeq(s, 1, Len(s) - 1)) ELSE s

TrimSpace(s) == TrimRight(TrimLeft(s))

LowerMap ==
  [c \in UpperSet |->
     CharAt(LowerLetters, CHOOSE i \in 1..Len(UpperLetters) : CharAt(UpperLetters, i) = c)]

LowerChar(c) == IF c \in UpperSet THEN LowerMap[c] ELSE c

RECURSIVE ToLower(_)
ToLower(s) == IF s = "" THEN "" ELSE LowerChar(CharAt(s, 1)) \o ToLower(Tail(s))

RECURSIVE ReplaceAll(_, _, _)
ReplaceAll(s, old, new) ==
  LET i == Index(s, old)
  IN IF i = 0 THEN s
     ELSE SubSeq(s, 1, i - 1) \o new \o ReplaceAll(SubSeq(s, i + Len(old), Len(s)), old, new)

RECURSIVE JoinPipe(_)
JoinPipe(ss) ==
  IF ss = <<>> THEN ""
  ELSE IF Len(ss) = 1 THEN ss[1]
       ELSE ss[1] \o "|" \o JoinPipe(Tail(ss))

\* strings.Join(ss, sep)
RECURSIVE JoinWith(_, _)
JoinWith(ss, sep) ==
  IF ss = <<>> THEN ""
  ELSE IF Len(ss) = 1 THEN ss[1]
       ELSE ss[1] \o sep \o JoinWith(Tail(ss), sep)

(***************************************************************************)
(* interface{} values and the type helpers (IsNil, ToString)               *)
(***************************************************************************)
NilV == [k |-> "nil"]

IntV(n) == [k |-> "int", v |-> n]

BoolV(b) == [k |-> "bool", v |-> b]

StrV(s) == [k |-> "string", v |-> s]

MapV(m) == [k |-> "map", v |-> m]

\* A slice value ([]interface{}, []map[string]interface{}): its elements.
SliceV(elems) == [k |-> "slice", v |-> elems]

\* A nil map value (a typed nil: reflect.Map kind with IsNil true).
NilMapV == [k |-> "nilmap"]

IsNil(value) == value.k \in {"nil", "nilmap"}

RECURSIVE Itoa(_)
Itoa(n) ==
  IF n < 0 THEN "-" \o Itoa(0 - n)
  ELSE IF n < 10 THEN CharAt(Digits, n + 1)
       ELSE Itoa(n \div 10) \o CharAt(Digits, (n % 10) + 1)

\* ToString(value) of the source (the name ToString is taken by module TLC).
ToStr(value) ==
  CASE value.k = "nil" -> ""
    [] value.k = "string" -> value.v
    [] value.k = "int" -> Itoa(value.v)
    [] value.k = "bool" -> IF value.v THEN "true" ELSE "false"
    [] value.k = "nilmap" -> "map[]"
    [] OTHER -> "map[...]"

IsDigits(s) == s # "" /\ \A i \in 1..Len(s) : IsDigit(CharAt(s, i))

DigitValue(c) == (CHOOSE i \in 1..10 : CharAt(Digits, i) = c) - 1

\* The number a text of decimal digits denotes.
RECURSIVE DigitsToNat(_)
DigitsToNat(s) ==
  IF s = "" THEN 0
  ELSE 10 * DigitsToNat(SubSeq(s, 1, Len(s) - 1)) + DigitValue(CharAt(s, Len(s)))

\* strconv.ParseFloat(s, 64) on the texts the inputs hold: an unsigned decimal
\* integer parses to its value, a text with another character is an error
\* (signs, fractions, exponents, "inf" and "nan" are in no input).
ParseFloat(s) ==
  IF IsDigits(s) THEN [ok |-> TRUE, v |-> DigitsToNat(s)] ELSE [ok |-> FALSE, v |-> 0]

\* GetSize(value): [ok, size].
GetSize(value) ==
  CASE value.k = "string" -> [ok |-> TRUE, size |-> Len(value.v)]
    [] value.k = "slice" -> [ok |-> TRUE, size |-> Len(value.v)]
    [] value.k = "map" -> [ok |-> TRUE, size |-> Cardinality(DOMAIN value.v)]
    [] value.k = "nilmap" -> [ok |-> TRUE, size |-> 0]
    [] value.k = "int" -> [ok |-> TRUE, size |-> value.v]
    [] OTHER -> [ok |-> FALSE, size |-> 0]

(***************************************************************************)
(* Rule objects.  A Rule is a record whose "type" is the Go struct name    *)
(* and whose other fields are the struct's fields.                         *)
(***************************************************************************)
RequiredRule == [type |-> "RequiredRule"]

StringRule == [type |-> "StringRule"]

BooleanRule(strict) == [type |-> "BooleanRule", Strict |-> strict]

AlphaNumRule(ascii) == [type |-> "AlphaNumRule", ASCII |-> ascii]

NullableRule == [type |-> "NullableRule"]

SometimesRule == [type |-> "SometimesRule"]

BailRule == [type |-> "BailRule"]

EmailRule(validations) == [type |-> "EmailRule", Validations |-> validations]

MinRule(min) == [type |-> "MinRule", Min |-> min]

IntegerRule(strict) == [type |-> "IntegerRule", Strict |-> strict]

NumericRule(strict) == [type |-> "NumericRule", Strict |-> strict]

StartsWithRule(prefixes) == [type |-> "StartsWithRule", Prefixes |-> prefixes]

RegexRule(pattern) == [type |-> "RegexRule", Pattern |-> pattern]

NotRegexRule(pattern) == [type |-> "NotRegexRule", Pattern |-> pattern]

\* The data field of a data-aware rule is nil until SetData.
SameRule(field) == [type |-> "SameRule", Field |-> field, data |-> <<>>]

DifferentRule(fields) == [type |-> "DifferentRule", Fields |-> fields, data |-> <<>>]

ConfirmedRule(field) == [type |-> "ConfirmedRule", Field |-> field, data |-> <<>>]

\* rule.(DataAwareRule): the struct has a SetData method.
IsDataAwareRule(rule) == rule.type \in {"SameRule", "DifferentRule", "ConfirmedRule"}

\* Variant of SetData that stores nothing.
SetData_Nothing(rule, data) == rule

\* if dataAware, ok := rule.(DataAwareRule); ok { dataAware.SetData(v.data) }
SetData(rule, data) ==
  IF IsDataAwareRule(rule) THEN [rule EXCEPT !.data = data] ELSE rule

\* parseRule's nil result: no Rule was built for the text.
NoRule == [type |-> "nil"]

\* rule.(ImplicitRule): the struct has an IsImplicit method.
IsImplicitRule(rule) == rule.type \in {"RequiredRule"}

RequiredRulePasses(value) ==
  IF IsNil(value) THEN FALSE
  ELSE CASE value.k = "string" -> TrimSpace(value.v) # ""
         [] value.k = "map" -> DOMAIN value.v # {}
         [] value.k = "slice" -> Len(value.v) > 0
         [] OTHER -> TRUE

StringRulePasses(value) == value.k = "string"

BooleanRulePasses(rule, value) ==
  IF rule.Strict THEN value.k = "bool"
  ELSE CASE value.k = "bool" -> TRUE
         [] value.k = "string" ->
              ToLower(value.v) \in {"true", "false", "1", "0", "yes", "no", "on", "off"}
         [] value.k = "int" -> value.v = 0 \/ value.v = 1
         [] OTHER -> FALSE

AlphaNumRulePasses(rule, value) ==
  LET str == ToStr(value)
  IN IF str = "" THEN FALSE
     ELSE \A i \in 1..Len(str) : IsLetter(CharAt(str, i)) \/ IsDigit(CharAt(str, i))

\* The characters of an atom of an address (RFC 5322 atext) among those the
\* inputs hold: letters, digits and "-".
IsAtext(c) == IsLetter(c) \/ IsDigit(c) \/ c = "-"

\* A dot-atom: atoms joined by single dots.
IsDotAtom(s) ==
  \A part \in {Split(s, ".")[i] : i \in 1..Len(Split(s, "."))} :
    part # "" /\ \A i \in 1..Len(part) : IsAtext(CharAt(part, i))

\* mail.ParseAddress(str) returns no error, for texts of letters, digits, "-",
\* "." and "@": the text is one addr-spec, local-part "@" domain, both
\* dot-atoms (display names, angle brackets, quoted strings and domain
\* literals need characters that are in no input).
ParseAddressOk(str) ==
  LET at == Index(str, "@")
  IN /\ at # 0
     /\ IsDotAtom(SubSeq(str, 1, at - 1))
     /\ IsDotAtom(SubSeq(str, at + 1, Len(str)))

EmailRulePasses(value) ==
  LET str == ToStr(value)
  IN IF str = "" THEN FALSE ELSE ParseAddressOk(str)

MinRulePasses(rule, value) ==
  LET size == GetSize(value)
  IN IF ~size.ok THEN FALSE ELSE size.size >= rule.Min

\* IsInteger(value): an integer type, or a string strconv.ParseInt accepts
\* (a text of decimal digits, among the texts the inputs hold).
IsInteger(value) ==
  CASE value.k = "int" -> TRUE
    [] value.k = "string" -> IsDigits(value.v)
    [] OTHER -> FALSE

\* IsNumeric(value): a number type, or a string strconv.ParseFloat accepts.
IsNumeric(value) ==
  CASE value.k = "int" -> TRUE
    [] value.k = "string" -> ParseFloat(value.v).ok
    [] OTHER -> FALSE

\* a == b on two interface values holding nil, a bool, an int or a string:
\* the same dynamic type and the same value.
InterfaceEq(a, b) == a.k = b.k /\ a = b

SameRulePasses(rule, value) ==
  IF rule.Field \notin DOMAIN rule.data THEN FALSE
  ELSE InterfaceEq(value, rule.data[rule.Field])

DifferentRulePasses(rule, value) ==
  \A i \in 1..Len(rule.Fields) :
    rule.Fields[i] \in DOMAIN rule.data => ~InterfaceEq(value, rule.data[rule.Fields[i]])

ConfirmedRulePasses(rule, attribute, value) ==
  LET confirmationField ==
        IF rule.Field = "" THEN attribute \o "_confirmation" ELSE rule.Field
  IN IF confirmationField \notin DOMAIN rule.data THEN FALSE
     ELSE InterfaceEq(value, rule.data[confirmationField])

StartsWithRulePasses(rule, value) ==
  \E i \in 1..Len(rule.Prefixes) : HasPrefix(ToStr(value), rule.Prefixes[i])

IntegerRulePasses(rule, value) ==
  IF rule.Strict THEN value.k = "int" ELSE IsInteger(value)

NumericRulePasses(rule, value) ==
  IF rule.Strict THEN value.k = "int" ELSE IsNumeric(value)

\* rule.Passes(attribute, value)
RulePasses(rule, attribute, value) ==
  CASE rule.type = "RequiredRule" -> RequiredRulePasses(value)
    [] rule.type = "StringRule" -> StringRulePasses(value)
    [] rule.type = "BooleanRule" -> BooleanRulePasses(rule, value)
    [] rule.type = "AlphaNumRule" -> AlphaNumRulePasses(rule, value)
    [] rule.type = "EmailRule" -> EmailRulePasses(value)
    [] rule.type = "MinRule" -> MinRulePasses(rule, value)
    [] rule.type = "IntegerRule" -> IntegerRulePasses(rule, value)
    [] rule.type = "NumericRule" -> NumericRulePasses(rule, value)
    [] rule.type = "StartsWithRule" -> StartsWithRulePasses(rule, value)
    [] rule.type = "SameRule" -> SameRulePasses(rule, value)
    [] rule.type = "DifferentRule" -> DifferentRulePasses(rule, value)
    [] rule.type = "ConfirmedRule" -> ConfirmedRulePasses(rule, attribute, value)
    [] OTHER -> TRUE

\* rule.Message()
RuleMessage(rule) ==
  CASE rule.type = "RequiredRule" -> "The :attribute field is required."
    [] rule.type = "StringRule" -> "The :attribute must be a string."
    [] rule.type = "BooleanRule" -> "The :attribute field must be true or false."
    [] rule.type = "AlphaNumRule" ->
         IF rule.ASCII THEN "The :attribute may only contain ASCII letters and numbers."
         ELSE "The :attribute may only contain letters and numbers."
    [] rule.type = "EmailRule" -> "The :attribute must be a valid email address."
    [] rule.type = "MinRule" -> "The :attribute must be at least " \o Itoa(rule.Min) \o "."
    [] rule.type = "IntegerRule" -> "The :attribute must be an integer."
    [] rule.type = "NumericRule" -> "The :attribute must be a number."
    [] rule.type = "StartsWithRule" ->
         "The :attribute must start with one of the following: "
           \o JoinWith(rule.Prefixes, ", ") \o "."
    [] rule.type \in {"RegexRule", "NotRegexRule"} -> "The :attribute format is invalid."
    [] rule.type = "SameRule" -> "The :attribute and " \o rule.Field \o " must match."
    [] rule.type = "DifferentRule" ->
         "The :attribute and " \o JoinWith(rule.Fields, ", ") \o " must be different."
    [] rule.type = "ConfirmedRule" -> "The :attribute confirmation does not match."
    [] OTHER -> ""

(***************************************************************************)
(* Factory: parsing a rule specification                                   *)
(***************************************************************************)
\* Variant of ParamStep for which a quote is a character like any other.
ParamStep_IgnoresQuotes(st, char) ==
  IF char = ","
  THEN IF Len(st.current) > 0
       THEN [st EXCEPT !.params = Append(st.params, TrimSpace(st.current)),
                       !.current = ""]
       ELSE st
  ELSE [st EXCEPT !.current = st.current \o char]

\* One step of the loop of parseParameters over the characters of paramStr;
\* st is [params, current, inQuotes, quoteChar].
ParamStep(st, char) ==
  IF (char = "\"" \/ char = "'") /\ ~st.inQuotes
  THEN [st EXCEPT !.inQuotes = TRUE, !.quoteChar = char]
  ELSE IF char = st.quoteChar /\ st.inQuotes
  THEN [st EXCEPT !.inQuotes = FALSE]
  ELSE IF char = "," /\ ~st.inQuotes
  THEN IF Len(st.current) > 0
       THEN [st EXCEPT !.params = Append(st.params, TrimSpace(st.current)),
                       !.current = ""]
       ELSE st
  ELSE [st EXCEPT !.current = st.current \o char]

RECURSIVE ParamLoop(_, _)
ParamLoop(st, s) ==
  IF s = "" THEN st ELSE ParamLoop(ParamStep(st, CharAt(s, 1)), Tail(s))

parseParameters(paramStr) ==
  LET st == ParamLoop([params |-> <<>>, current |-> "", inQuotes |-> FALSE,
                       quoteChar |-> ""], paramStr)
  IN IF Len(st.current) > 0 THEN Append(st.params, TrimSpace(st.current)) ELSE st.params

\* Variant of regexPattern that takes the first of the comma-split parameters.
regexPattern_FirstParam(params, paramText) ==
  LET pattern == IF Len(params) > 0 THEN params[1] ELSE ""
  IN IF Len(pattern) >= 2 /\ CharAt(pattern, 1) = "/" /\ CharAt(pattern, Len(pattern)) = "/"
     THEN SubSeq(pattern, 2, Len(pattern) - 1)
     ELSE pattern

\* The pattern of regex and not_regex (lines 188-192 and 198-202): parts[1]
\* trimmed, without its surrounding slashes if it has both.
regexPattern(params, paramText) ==
  LET pattern == TrimSpace(paramText)
  IN IF Len(pattern) >= 2 /\ CharAt(pattern, 1) = "/" /\ CharAt(pattern, Len(pattern)) = "/"
     THEN SubSeq(pattern, 2, Len(pattern) - 1)
     ELSE pattern

\* The switch of parseRule (lines 114-327): the rule built for a name, nil
\* when the name has no case or its case builds nothing from the parameters.
\* parts is strings.SplitN(ruleStr, ":", 2).
ruleFor(ruleName, params, parts) ==
  CASE ruleName = "required" -> RequiredRule
    [] ruleName = "string" -> StringRule
    [] ruleName \in {"integer", "int"} ->
         IntegerRule(Len(params) > 0 /\ params[1] = "strict")
    [] ruleName = "numeric" ->
         NumericRule(Len(params) > 0 /\ params[1] = "strict")
    [] ruleName \in {"boolean", "bool"} ->
         BooleanRule(Len(params) > 0 /\ params[1] = "strict")
    [] ruleName = "email" -> EmailRule(params)
    [] ruleName = "alpha_num" ->
         AlphaNumRule(Len(params) > 0 /\ params[1] = "ascii")
    [] ruleName = "min" ->
         IF Len(params) > 0 /\ ParseFloat(params[1]).ok
         THEN MinRule(ParseFloat(params[1]).v) ELSE NoRule
    [] ruleName = "regex" ->
         IF Len(parts) > 1 THEN RegexRule(regexPattern(params, parts[2])) ELSE NoRule
    [] ruleName = "not_regex" ->
         IF Len(parts) > 1 THEN NotRegexRule(regexPattern(params, parts[2])) ELSE NoRule
    [] ruleName = "same" -> IF Len(params) > 0 THEN SameRule(params[1]) ELSE NoRule
    [] ruleName = "different" -> DifferentRule(params)
    [] ruleName = "confirmed" -> ConfirmedRule(IF Len(params) > 0 THEN params[1] ELSE "")
    [] ruleName = "starts_with" -> StartsWithRule(params)
    [] ruleName = "nullable" -> NullableRule
    [] ruleName = "sometimes" -> SometimesRule
    [] ruleName = "bail" -> BailRule
    [] OTHER -> NoRule

\* Variant of parseRule whose switch has a default case: a text for which the
\* switch builds nothing yields a rule (a StringRule) instead of nil.
parseRule_UnknownYieldsRule(ruleStr) ==
  IF ruleStr = "" THEN NoRule
  ELSE
    LET parts == SplitN2(ruleStr, ":")
        ruleName == ToLower(parts[1])
        params == IF Len(parts) > 1 THEN parseParameters(parts[2]) ELSE <<>>
        rule == ruleFor(ruleName, params, parts)
    IN IF rule = NoRule THEN StringRule ELSE rule

parseRule(ruleStr) ==
  IF ruleStr = "" THEN NoRule
  ELSE
    LET parts == SplitN2(ruleStr, ":")
        ruleName == ToLower(parts[1])
        params == IF Len(parts) > 1 THEN parseParameters(parts[2]) ELSE <<>>
    IN ruleFor(ruleName, params, parts)

RECURSIVE ParseEach(_)
ParseEach(ruleStrings) ==
  IF ruleStrings = <<>> THEN <<>>
  ELSE LET rule == parseRule(TrimSpace(ruleStrings[1]))
       IN (IF rule # NoRule THEN <<rule>> ELSE <<>>) \o ParseEach(Tail(ruleStrings))

\* rules is the pipe-separated text of one field ("required|string|min:3").
parseFieldRules(rules) == ParseEach(Split(rules, "|"))

parseRules(rules) == [field \in DOMAIN rules |-> parseFieldRules(rules[field])]

(***************************************************************************)
(* ErrorBag                                                                *)
(***************************************************************************)
\* An empty Go map.
EmptyMap == <<>>

\* m[field] of a Go map[string][]Rule: the nil slice when the key is missing.
MapGetRules(m, field) == IF field \in DOMAIN m THEN m[field] ELSE <<>>

NewErrorBag == EmptyMap

\* e.Add(field, message)
Add(e, field, message) ==
  IF field \in DOMAIN e THEN [e EXCEPT ![field] = Append(@, message)]
  ELSE e @@ (field :> <<message>>)

Has(e, field) == field \in DOMAIN e

First(e, field) == IF field \in DOMAIN e /\ Len(e[field]) > 0 THEN e[field][1] ELSE ""

IsEmpty(e) == Cardinality(DOMAIN e) = 0

RECURSIVE SumLen(_, _)
SumLen(e, fields) ==
  IF fields = {} THEN 0
  ELSE LET f == CHOOSE f \in fields : TRUE IN Len(e[f]) + SumLen(e, fields \ {f})

Count(e) == SumLen(e, DOMAIN e)

NewValidationException(message, errors) == [Message |-> message, Errors |-> errors]

\* The nil error.
NilError == [Message |-> "", Errors |-> "nil"]

(***************************************************************************)
(* validator: the execution engine.  v is the validator object, a record   *)
(* [data, rules, customMessages, customAttributes, stopOnFirstFailure].    *)
(***************************************************************************)
hasField(v, field) == field \in DOMAIN v.data

\* m[key] of a Go map[string]interface{}: nil when the key is missing.
MapGet(m, key) == IF key \in DOMAIN m THEN m[key] ELSE NilV

RECURSIVE NestedWalk(_, _, _)
NestedWalk(current, parts, i) ==
  IF i = Len(parts) THEN MapGet(current, parts[i])
  ELSE IF parts[i] \in DOMAIN current
       THEN IF current[parts[i]].k = "map"
            THEN NestedWalk(current[parts[i]].v, parts, i + 1)
            ELSE NilV
       ELSE NilV

getNestedValue(v, field) == NestedWalk(v.data, Split(field, "."), 1)

getValue(v, field) ==
  IF Contains(field, ".") THEN getNestedValue(v, field) ELSE MapGet(v.data, field)

\* Variant of shouldValidateField without the nil check of line 174.
shouldValidateField_RunsOnNil(v, field, value, rule) ==
  IF IsImplicitRule(rule) THEN TRUE
  ELSE IF ~hasField(v, field) THEN FALSE
  ELSE TRUE

\* Variant of shouldValidateField without the implicit-rule case of line 164.
shouldValidateField_NoImplicit(v, field, value, rule) ==
  IF ~hasField(v, field) THEN FALSE
  ELSE IF IsNil(value) THEN FALSE
  ELSE TRUE

shouldValidateField(v, field, value, rule) ==
  IF IsImplicitRule(rule) THEN TRUE
  ELSE IF ~hasField(v, field) THEN FALSE
  ELSE IF IsNil(value) THEN FALSE
  ELSE TRUE

formatMessage(v, message, field) ==
  LET attribute == IF field \in DOMAIN v.customAttributes
                   THEN v.customAttributes[field] ELSE field
  IN ReplaceAll(ReplaceAll(message, ":attribute", attribute), ":field", field)

\* reflect.TypeOf(rule).Elem().Name()
TypeName(rule) == rule.type

\* Variant of getErrorMessage that returns a custom message as supplied,
\* formatting only the rule's own message.
getErrorMessage_CustomUnformatted(v, field, rule) ==
  LET ruleType == ToLower(TrimSuffix(TypeName(rule), "Rule"))
  IN IF (field \o "." \o ruleType) \in DOMAIN v.customMessages
     THEN v.customMessages[field \o "." \o ruleType]
     ELSE IF ruleType \in DOMAIN v.customMessages
     THEN v.customMessages[ruleType]
     ELSE formatMessage(v, RuleMessage(rule), field)

getErrorMessage(v, field, rule) ==
  LET ruleType == ToLower(TrimSuffix(TypeName(rule), "Rule"))
  IN IF (field \o "." \o ruleType) \in DOMAIN v.customMessages
     THEN formatMessage(v, v.customMessages[field \o "." \o ruleType], field)
     ELSE IF ruleType \in DOMAIN v.customMessages
     THEN formatMessage(v, v.customMessages[ruleType], field)
     ELSE formatMessage(v, RuleMessage(rule), field)

\* st is the running state of runValidation: the new ErrorBag and failedRules,
\* the record of the loop's steps so far and whether the loop has returned.
addFailure(v, st, field, rule) ==
  [st EXCEPT
     !.failedRules = IF field \in DOMAIN st.failedRules
                     THEN [st.failedRules EXCEPT ![field] = @ \cup {"*validation." \o TypeName(rule)}]
                     ELSE st.failedRules @@ (field :> {"*validation." \o TypeName(rule)}),
     !.errorBag = Add(st.errorBag, field, getErrorMessage(v, field, rule))]

\* Variant of afterFailure without the stop-on-first-failure return.
afterFailure_NoStop(v, rule) ==
  IF IsImplicitRule(rule) THEN "break" ELSE "continue"

\* Variant of afterFailure without the break on an implicit rule.
afterFailure_NoBreak(v, rule) ==
  IF v.stopOnFirstFailure THEN "return" ELSE "continue"

\* Variant of afterFailure that leaves the chain after any failure.
afterFailure_BreakOnAny(v, rule) ==
  IF v.stopOnFirstFailure THEN "return" ELSE "break"

\* What the loop does after a failed rule has been recorded (lines 147-155).
afterFailure(v, rule) ==
  IF v.stopOnFirstFailure THEN "return"
  ELSE IF IsImplicitRule(rule) THEN "break"
  ELSE "continue"

\* The record of a run: for every field whose chain the loop entered, what
\* happened to each rule it reached, in chain order: "skipped" (the rule was
\* not run), or rule.Passes was called and "passed" or "failed".
Logged(st, field, outcome) == [st EXCEPT !.trace[field] = Append(@, outcome)]

RECURSIVE RunChain(_, _, _, _, _)
RunChain(v, st, field, value, i) ==
  IF i > Len(v.rules[field]) THEN st
  ELSE
    LET rule == SetData(v.rules[field][i], v.data)
    IN IF ~shouldValidateField(v, field, value, rule)
       THEN RunChain(v, Logged(st, field, "skipped"), field, value, i + 1)
       ELSE IF RulePasses(rule, field, value)
       THEN RunChain(v, Logged(st, field, "passed"), field, value, i + 1)
       ELSE LET failed == addFailure(v, Logged(st, field, "failed"), field, rule)
                then == afterFailure(v, rule)
            IN IF then = "return" THEN [failed EXCEPT !.returned = TRUE]
               ELSE IF then = "break" THEN failed
               ELSE RunChain(v, failed, field, value, i + 1)

RECURSIVE RunFields(_, _, _)
RunFields(v, st, order) ==
  IF order = <<>> \/ st.returned THEN st
  ELSE RunFields(v,
                 RunChain(v, [st EXCEPT !.trace = @ @@ (Head(order) :> <<>>)],
                          Head(order), getValue(v, Head(order)), 1),
                 Tail(order))

\* Variant of clearErrors that keeps what the previous run recorded.
clearErrors_Keeps(oldBag, oldFailed) == [errorBag |-> oldBag, failedRules |-> oldFailed]

\* The state runValidation starts from: previous errors cleared.
clearErrors(oldBag, oldFailed) == [errorBag |-> NewErrorBag, failedRules |-> EmptyMap]

\* runValidation; order is the order in which range v.rules yields the fields.
runValidation(v, oldBag, oldFailed, order) ==
  LET cleared == clearErrors(oldBag, oldFailed)
  IN RunFields(v, [errorBag |-> cleared.errorBag, failedRules |-> cleared.failedRules,
                   trace |-> EmptyMap, returned |-> FALSE], order)

\* The orders in which a range over a Go map with key set S may yield the keys.
Orders(S) ==
  {o \in [1..Cardinality(S) -> S] : \A i, j \in 1..Cardinality(S) : o[i] = o[j] => i = j}

(***************************************************************************)
(* Factory.parseStruct.  A struct value is a sequence of fields            *)
(* [Name, json, validate, exported, value]; anything else is not a struct. *)
(***************************************************************************)
IsStruct(s) == s.kind = "struct"

structFieldName(field) ==
  IF field.json # "" /\ field.json # "-"
  THEN IF Index(field.json, ",") # 0
       THEN SubSeq(field.json, 1, Index(field.json, ",") - 1)
       ELSE field.json
  ELSE field.Name

\* m[key] = value on a Go map.
MapSet(m, key, value) ==
  IF key \in DOMAIN m THEN [m EXCEPT ![key] = value] ELSE m @@ (key :> value)

RECURSIVE StructLoop(_, _, _)
StructLoop(acc, fields, i) ==
  IF i > Len(fields) THEN acc
  ELSE IF ~fields[i].exported THEN StructLoop(acc, fields, i + 1)
  ELSE
    LET fieldName == structFieldName(fields[i])
        withRule == IF fields[i].validate # "" /\ fields[i].validate # "-"
                    THEN MapSet(acc.rules, fieldName, fields[i].validate)
                    ELSE acc.rules
    IN StructLoop([data |-> MapSet(acc.data, fieldName, fields[i].value), rules |-> withRule],
                  fields, i + 1)

parseStruct(s) == StructLoop([data |-> EmptyMap, rules |-> EmptyMap], s.fields, 1)

(***************************************************************************)
(* State                                                                   *)
(***************************************************************************)
VARIABLES
  fCustomMessages,     \* Factory.customMessages
  fCustomAttributes,   \* Factory.customAttributes
  made,                \* a validator has been built
  data,                \* validator.data
  rules,               \* validator.rules
  customMessages,      \* validator.customMessages
  customAttributes,    \* validator.customAttributes
  errorBag,            \* validator.errorBag (its messages map)
  failedRules,         \* validator.failedRules
  stopOnFirstFailure,  \* validator.stopOnFirstFailure
  spec,                \* the rule specification the validator was built from
  trace,               \* what the latest run did with each rule it reached
  rerun,               \* the latest run started from a non-empty ErrorBag
  cvRules,             \* Validator.rules of the closure engine: field -> ParseResult
  sharedRule,          \* the Rule object a rules map holds, as both validators built from it see it
  sessions,            \* the validators built from that map, each run by a goroutine of its own
  ret                  \* the latest call on the API and what it returned

vars == <<fCustomMessages, fCustomAttributes, made, data, rules, customMessages,
          customAttributes, errorBag, failedRules, stopOnFirstFailure, spec, trace, rerun,
          cvRules, sharedRule, sessions, ret>>

factoryVars == <<fCustomMessages, fCustomAttributes>>

heapVars == <<sharedRule, sessions>>

configVars == <<data, rules, customMessages, customAttributes, spec>>

V == [data |-> data, rules |-> rules, customMessages |-> customMessages,
      customAttributes |-> customAttributes, stopOnFirstFailure |-> stopOnFirstFailure]

\* NewFactory()
Init ==
  /\ fCustomMessages = EmptyMap
  /\ fCustomAttributes = EmptyMap
  /\ made = FALSE
  /\ data = EmptyMap
  /\ rules = EmptyMap
  /\ customMessages = EmptyMap
  /\ customAttributes = EmptyMap
  /\ errorBag = NewErrorBag
  /\ failedRules = EmptyMap
  /\ stopOnFirstFailure = FALSE
  /\ spec = EmptyMap
  /\ trace = EmptyMap
  /\ rerun = FALSE
  /\ cvRules = EmptyMap
  /\ sharedRule = NoRule
  /\ sessions = EmptyMap
  /\ ret = [op |-> "NewFactory"]

(***************************************************************************)
(* Operations                                                              *)
(***************************************************************************)
\* for key, value := range src { dst[key] = value }
CopyInto(dst, src) ==
  [key \in DOMAIN dst \cup DOMAIN src |-> IF key \in DOMAIN src THEN src[key] ELSE dst[key]]

\* Factory.SetCustomMessages(messages)
FactorySetCustomMessages(messages) ==
  /\ ~made
  /\ fCustomMessages' = CopyInto(fCustomMessages, messages)
  /\ ret' = [op |-> "Factory.SetCustomMessages"]
  /\ UNCHANGED <<fCustomAttributes, cvRules, heapVars, made, data, rules, customMessages, customAttributes,
                 errorBag, failedRules, stopOnFirstFailure, spec, trace, rerun>>

\* Factory.SetCustomAttributes(attributes)
FactorySetCustomAttributes(attributes) ==
  /\ ~made
  /\ fCustomAttributes' = CopyInto(fCustomAttributes, attributes)
  /\ ret' = [op |-> "Factory.SetCustomAttributes"]
  /\ UNCHANGED <<fCustomMessages, cvRules, heapVars, made, data, rules, customMessages, customAttributes,
                 errorBag, failedRules, stopOnFirstFailure, spec, trace, rerun>>

\* Factory.Make followed by NewValidator and validator.SetCustomAttributes.
Build(inData, inRules, inMessages) ==
  /\ made' = TRUE
  /\ data' = inData
  /\ rules' = parseRules(inRules)
  /\ customMessages' = CopyInto(CopyInto(EmptyMap, fCustomMessages), inMessages)
  /\ customAttributes' = CopyInto(EmptyMap, fCustomAttributes)
  /\ errorBag' = NewErrorBag
  /\ failedRules' = EmptyMap
  /\ stopOnFirstFailure' = FALSE
  /\ spec' = inRules
  /\ trace' = EmptyMap
  /\ rerun' = FALSE
  /\ UNCHANGED <<factoryVars, cvRules, heapVars>>

\* Factory.Make(data, rules, messages)
Make(inData, inRules, inMessages) ==
  /\ ~made
  /\ Build(inData, inRules, inMessages)
  /\ ret' = [op |-> "Make", err |-> NilError]

\* Factory.ValidateStruct(s)
ValidateStruct(s) ==
  /\ ~made
  /\ IF IsStruct(s)
     THEN /\ Build(parseStruct(s).data, parseStruct(s).rules, EmptyMap)
          /\ ret' = [op |-> "ValidateStruct", err |-> NilError]
     ELSE /\ ret' = [op |-> "ValidateStruct",
                     err |-> [Message |-> "input must be a struct", Errors |-> "nil"]]
          /\ UNCHANGED <<fCustomMessages, fCustomAttributes, cvRules, heapVars, made, data,
                         rules,
                         customMessages, customAttributes, errorBag, failedRules,
                         stopOnFirstFailure, spec, trace, rerun>>

\* validator.StopOnFirstFailure()
StopOnFirstFailure ==
  /\ made
  /\ stopOnFirstFailure' = TRUE
  /\ ret' = [op |-> "StopOnFirstFailure"]
  /\ UNCHANGED <<factoryVars, cvRules, heapVars, made, configVars, errorBag, failedRules, trace, rerun>>

\* The effect of one call of runValidation on the validator.
Ran(r) ==
  /\ rerun' = ~IsEmpty(errorBag)
  /\ errorBag' = r.errorBag
  /\ failedRules' = r.failedRules
  /\ trace' = r.trace
  /\ UNCHANGED <<factoryVars, cvRules, heapVars, made, configVars, stopOnFirstFailure>>

passesResult(bag) == IsEmpty(bag)

\* Variant of failsResult without the negation.
failsResult_NotNegated(bag) == passesResult(bag)

failsResult(bag) == ~passesResult(bag)

validateResult(bag) ==
  IF failsResult(bag) THEN NewValidationException("The given data was invalid.", bag)
  ELSE NilError

\* validator.Passes()
Passes ==
  /\ made
  /\ \E order \in Orders(DOMAIN rules) :
     \E r \in {runValidation(V, errorBag, failedRules, order)} :
       Ran(r) /\ ret' = [op |-> "Passes", val |-> passesResult(r.errorBag)]

\* validator.Fails()
Fails ==
  /\ made
  /\ \E order \in Orders(DOMAIN rules) :
     \E r \in {runValidation(V, errorBag, failedRules, order)} :
       Ran(r) /\ ret' = [op |-> "Fails", val |-> failsResult(r.errorBag)]

\* validator.Validate()
Validate ==
  /\ made
  /\ \E order \in Orders(DOMAIN rules) :
     \E r \in {runValidation(V, errorBag, failedRules, order)} :
       Ran(r) /\ ret' = [op |-> "Validate", err |-> validateResult(r.errorBag)]

validData(v, bag) ==
  [field \in {f \in DOMAIN v.rules : ~Has(bag, f) /\ f \in DOMAIN v.data} |-> v.data[field]]

invalidData(v, bag) ==
  [field \in {f \in DOMAIN bag : f \in DOMAIN v.data} |-> v.data[field]]

\* validator.Valid()
Valid ==
  /\ made
  /\ \E order \in Orders(DOMAIN rules) :
     \E r \in {runValidation(V, errorBag, failedRules, order)} :
       Ran(r) /\ ret' = [op |-> "Valid", val |-> validData(V, r.errorBag)]

\* validator.Invalid()
Invalid ==
  /\ made
  /\ \E order \in Orders(DOMAIN rules) :
     \E r \in {runValidation(V, errorBag, failedRules, order)} :
       Ran(r) /\ ret' = [op |-> "Invalid", val |-> invalidData(V, r.errorBag)]

\* validator.Errors()
Errors ==
  /\ made
  /\ IF IsEmpty(errorBag)
     THEN \E order \in Orders(DOMAIN rules) :
          \E r \in {runValidation(V, errorBag, failedRules, order)} :
            Ran(r) /\ ret' = [op |-> "Errors", val |-> r.errorBag]
     ELSE /\ ret' = [op |-> "Errors", val |-> errorBag]
          /\ UNCHANGED <<factoryVars, cvRules, heapVars, made, configVars, errorBag, failedRules,
                         stopOnFirstFailure, trace, rerun>>

(***************************************************************************)
(* Inputs of the engine specification                                      *)
(***************************************************************************)
\* Rule names as written in a specification; "bogus" is in no case of parseRule.
RuleNames == {"required", "alpha_num", "bool", "bogus"}

\* The rule texts of the field under test: up to MaxChain rules joined by "|".
ChainTexts == {JoinPipe(c) : c \in UNION {[1..n -> RuleNames] : n \in 0..MaxChain}}

TestValues == {NilV, IntV(0), StrV(""), StrV("a!")}

TestData == {EmptyMap} \cup {("f1" :> x) : x \in TestValues}

\* The second field of a specification: its part of the data and its rule text.
SiblingInputs ==
  {[data |-> ("f2" :> BoolV(FALSE)), rules |-> ("f2" :> "required")],
   [data |-> ("f2" :> StrV("a!")), rules |-> ("f2" :> "alpha_num|bool")],
   [data |-> EmptyMap, rules |-> ("f2" :> "required|bool")],
   [data |-> ("u" :> StrV("a!")), rules |-> ("u.n" :> "required|bool")],
   [data |-> ("u.n" :> StrV("a!")), rules |-> ("u.n" :> "bool")]}

MakeInputs ==
  {[data |-> a @@ s.data, rules |-> ("f1" :> c) @@ s.rules] :
     a \in TestData, c \in ChainTexts, s \in SiblingInputs}

NotAStruct == [kind |-> "string"]

StructInputs ==
  {NotAStruct,
   [kind |-> "struct",
    fields |-> <<[Name |-> "Name", json |-> "f1", validate |-> "required|bogus",
                  exported |-> TRUE, value |-> StrV("")]>>],
   [kind |-> "struct",
    fields |-> <<[Name |-> "Name", json |-> "f1,omitempty", validate |-> "invalid-rule",
                  exported |-> TRUE, value |-> StrV("a!")],
                 [Name |-> "f2", json |-> "", validate |-> "alpha_num|bool",
                  exported |-> TRUE, value |-> StrV("a!")],
                 [Name |-> "secret", json |-> "-", validate |-> "required",
                  exported |-> FALSE, value |-> StrV("")]>>]}

RunOps == Passes \/ Fails \/ Validate \/ Valid \/ Invalid \/ Errors

Next ==
  \/ ~made /\ \E in \in MakeInputs : Make(in.data, in.rules, EmptyMap)
  \/ ~made /\ \E s \in StructInputs : ValidateStruct(s)
  \/ StopOnFirstFailure
  \/ RunOps

Spec == Init /\ [][Next]_vars

(***************************************************************************)
(* Inputs of the message specification: custom messages and display names  *)
(***************************************************************************)
MsgRuleNames == {"required", "alpha_num", "bool"}

MsgChainTexts == {JoinPipe(c) : c \in UNION {[1..n -> MsgRuleNames] : n \in 1..MaxChain}}

\* The field under test is empty or not alphanumeric; the second field is
\* always empty and required.
MsgMakeInputs ==
  {[data |-> ("f1" :> x) @@ ("f2" :> StrV("")),
    rules |-> ("f1" :> c) @@ ("f2" :> "required")] :
     x \in {StrV(""), StrV("a!")}, c \in MsgChainTexts}

MessageInputs ==
  {EmptyMap,
   ("f1.required" :> "Please enter your :attribute"),
   ("required" :> "We need :attribute") @@ ("f1.required" :> "Please enter your :attribute"),
   ("alpha_num" :> "Only letters and digits in :attribute"),
   ("f1.alpha_num" :> ":attribute: letters and digits only") @@ ("bool" :> "Yes or no"),
   ("f1.alphanum" :> ":attribute: letters and digits only") @@ ("boolean" :> "Yes or no")}

FactoryMessageInputs == {("required" :> "The :attribute field is mandatory")}

FactoryAttributeInputs == {("f1" :> "Email Address")}

NextMsg ==
  \/ ~made /\ \E messages \in FactoryMessageInputs : FactorySetCustomMessages(messages)
  \/ ~made /\ \E attributes \in FactoryAttributeInputs : FactorySetCustomAttributes(attributes)
  \/ ~made /\ \E in \in MsgMakeInputs, messages \in MessageInputs :
                Make(in.data, in.rules, messages)
  \/ Passes
  \/ Fails
  \/ Errors

SpecMsg == Init /\ [][NextMsg]_vars

(***************************************************************************)
(* Field addressing: dotted paths into nested records and the "*" segment. *)
(***************************************************************************)
\* One element of the users array: a record with an email.
UserElem(email) == MapV(("email" :> StrV(email)))

EmailTexts == {"a@b.c", "a-b"}

\* A two-element array of users under "users" and the rule text of
\* "users.*.email".
WildcardInputs ==
  {[data |-> ("users" :> SliceV(<<UserElem(e0), UserElem(e1)>>)),
    rules |-> ("users.*.email" :> c)] :
     e0 \in EmailTexts, e1 \in EmailTexts, c \in {"email", "required|email"}}

\* What the record holds under "user": nothing, a value that is not a record,
\* a record without "profile", one whose "profile" is not a record, and
\* records whose profile holds an age.
UserValues ==
  {StrV("x"),
   MapV(("name" :> StrV("J"))),
   MapV(("profile" :> IntV(1))),
   MapV(("profile" :> MapV(("name" :> StrV("J")))))}
  \cup {MapV(("profile" :> MapV(("age" :> age)))) : age \in {NilV, IntV(5), IntV(25)}}

NestedInputs ==
  {[data |-> d, rules |-> ("user.profile.age" :> c)] :
     d \in {EmptyMap} \cup {("user" :> u) : u \in UserValues},
     c \in {"min:18", "required|min:18", "required"}}

PathMakeInputs ==
  {[data |-> w.data @@ n.data, rules |-> w.rules @@ n.rules] :
     w \in WildcardInputs, n \in NestedInputs}

NextPath ==
  \/ ~made /\ \E in \in PathMakeInputs : Make(in.data, in.rules, EmptyMap)
  \/ Passes
  \/ Fails
  \/ Errors

SpecPath == Init /\ [][NextPath]_vars

(***************************************************************************)
(* Size constraints built by the Factory.                                  *)
(***************************************************************************)
SizeValues ==
  {StrV("10"), StrV("2020"), StrV("abc"), StrV("abcdefg"), IntV(10), IntV(3)}

SizeChainTexts ==
  {"min:5", "integer|min:5", "numeric|min:5", "min:5|numeric",
   "required|integer|min:1025", "min:abc", "required|min:abc", "min"}

SizeMakeInputs ==
  {[data |-> ("f1" :> x), rules |-> ("f1" :> c)] : x \in SizeValues, c \in SizeChainTexts}

NextSize ==
  \/ ~made /\ \E in \in SizeMakeInputs : Make(in.data, in.rules, EmptyMap)
  \/ Passes
  \/ Fails
  \/ Errors

SpecSize == Init /\ [][NextSize]_vars

(***************************************************************************)
(* Parameter texts: what Factory.Make builds from starts_with and from     *)
(* regex / not_regex followed by a text.                                   *)
(***************************************************************************)
MaxParamLen == 4

ParamAlphabet == {"a", ",", "\"", "'", " "}

PatternAlphabet == {"a", ",", "/", " ", ":"}

\* The texts of at most n characters of an alphabet.
RECURSIVE TextsOver(_, _)
TextsOver(alphabet, n) ==
  IF n = 0 THEN {""}
  ELSE LET shorter == TextsOver(alphabet, n - 1)
       IN shorter \cup {t \o c : t \in shorter, c \in alphabet}

ParamRuleTexts ==
  {"starts_with:" \o t : t \in TextsOver(ParamAlphabet, MaxParamLen)}
  \cup {"starts_with:\"a,b\",c", "starts_with:'a,b',c", "starts_with:\"a,b", "starts_with"}

PatternRuleTexts ==
  {name \o ":" \o t : name \in {"regex", "not_regex"},
                      t \in TextsOver(PatternAlphabet, MaxParamLen)}
  \cup {"regex:/^[A-Z]{3}[0-9]{3}$/", "not_regex:/^[A-Z]{1,3}[0-9]{1,5}$/", "regex"}

NextParse ==
  \/ ~made /\ \E text \in ParamRuleTexts : Make(EmptyMap, ("f1" :> text), EmptyMap)
  \/ ~made /\ \E text \in PatternRuleTexts : Make(EmptyMap, ("f1" :> text), EmptyMap)

SpecParse == Init /\ [][NextParse]_vars

\* Pattern texts that may hold the pipe of an alternation.
AlternationAlphabet == {"a", "|", "/", "(", ","}

AlternationRuleTexts ==
  {"regex:" \o t : t \in TextsOver(AlternationAlphabet, MaxParamLen)}
  \cup {"regex:/^(cat|dog)$/", "not_regex:/^(cat|dog)$/"}

NextAlternation ==
  ~made /\ \E text \in AlternationRuleTexts : Make(EmptyMap, ("f1" :> text), EmptyMap)

SpecAlternation == Init /\ [][NextAlternation]_vars

(***************************************************************************)
(* Chains that hold the marker rules bail and sometimes.                   *)
(***************************************************************************)
MarkerChainTexts ==
  {"bail|alpha_num|bool", "alpha_num|bail|bool", "bail|required|bool", "bail",
   "sometimes|required", "sometimes|required|bool", "required|sometimes",
   "sometimes|bool", "sometimes", "alpha_num|bool"}

MarkerInputs ==
  {[data |-> a @@ b, rules |-> ("f1" :> c) @@ ("f2" :> d)] :
     a \in TestData, c \in MarkerChainTexts,
     b \in {EmptyMap, ("f2" :> StrV("a!"))}, d \in {"sometimes|required", "bail|bool|alpha_num"}}

NextMarker ==
  \/ ~made /\ \E in \in MarkerInputs : Make(in.data, in.rules, EmptyMap)
  \/ Passes
  \/ Fails
  \/ Errors

SpecMarker == Init /\ [][NextMarker]_vars

(***************************************************************************)
(* Rules added to a validator after it has been built.                     *)
(***************************************************************************)
\* v.rules[field] = append(v.rules[field], rules...)
appendRules(vrules, field, newRules) ==
  IF field \in DOMAIN vrules THEN [vrules EXCEPT ![field] = @ \o newRules]
  ELSE vrules @@ (field :> newRules)

\* validator.AddRule(field, rules...)
AddRule(field, newRules) ==
  /\ made
  /\ Len(MapGetRules(rules, field)) + Len(newRules) <= MaxChain
  /\ rules' = appendRules(rules, field, newRules)
  /\ ret' = [op |-> "AddRule"]
  /\ UNCHANGED <<factoryVars, cvRules, heapVars, made, data, customMessages, customAttributes,
                 spec, errorBag, failedRules, stopOnFirstFailure, trace, rerun>>

\* The callbacks handed to Sometimes: a test of the data for a field, or a
\* constant.
callback(cb, d) ==
  CASE cb.kind = "present" -> cb.field \in DOMAIN d
    [] cb.kind = "always" -> TRUE
    [] cb.kind = "never" -> FALSE

\* validator.Sometimes(field, rules, callback)
Sometimes(field, newRules, cb) ==
  /\ made
  /\ Len(MapGetRules(rules, field)) + Len(newRules) <= MaxChain
  /\ rules' = IF callback(cb, data) THEN appendRules(rules, field, newRules) ELSE rules
  /\ ret' = [op |-> "Sometimes"]
  /\ UNCHANGED <<factoryVars, cvRules, heapVars, made, data, customMessages, customAttributes,
                 spec, errorBag, failedRules, stopOnFirstFailure, trace, rerun>>

AddedRules == {<<BooleanRule(FALSE)>>, <<RequiredRule>>}

Callbacks ==
  {[kind |-> "present", field |-> "f2"], [kind |-> "always"], [kind |-> "never"]}

AddRuleInputs ==
  {[data |-> d, rules |-> ("f1" :> c)] :
     d \in {EmptyMap, ("f1" :> StrV("a!")), ("f1" :> StrV("a!")) @@ ("f2" :> StrV("on"))},
     c \in {"alpha_num", "required"}}

NextAddRule ==
  \/ ~made /\ \E in \in AddRuleInputs : Make(in.data, in.rules, EmptyMap)
  \/ \E field \in {"f1", "f2"} : \E newRules \in AddedRules : AddRule(field, newRules)
  \/ \E field \in {"f1", "f2"} : \E newRules \in AddedRules : \E cb \in Callbacks :
       Sometimes(field, newRules, cb)
  \/ Passes
  \/ Fails
  \/ Errors

SpecAddRule == Init /\ [][NextAddRule]_vars

(***************************************************************************)
(* Two validators built from one rules map and run by two goroutines.      *)
(* The map holds, for the field a, either a rule text or a Rule object     *)
(* built by the caller.  parseFieldRules parses a text into Rule objects   *)
(* of the validator's own and appends a Rule object as it is, so that both *)
(* validators hold the same object.  runValidation is split at the two     *)
(* points at which it touches a rule: SetData and Passes.                  *)
(***************************************************************************)
Sessions == {1, 2}

\* An entry of validator.rules[field]: a Rule of the validator's own, or the
\* pointer to the caller's object.
OwnRef(rule) == [ref |-> "own", rule |-> rule]

SharedRef == [ref |-> "shared"]

RECURSIVE OwnRefs(_)
OwnRefs(rs) == IF rs = <<>> THEN <<>> ELSE <<OwnRef(Head(rs))>> \o OwnRefs(Tail(rs))

\* parseFieldRules on a value of the rules map: case string and case Rule.
parseFieldRulesOf(item) ==
  IF item.kind = "string" THEN OwnRefs(parseFieldRules(item.text)) ELSE <<SharedRef>>

\* The Rule behind an entry, given the caller's object as it is now.
Deref(entry, object) == IF entry.ref = "shared" THEN object ELSE entry.rule

\* The validator of a session as the engine's operators take it.
SessionV(sn, object) ==
  [data |-> sn.data,
   rules |-> ("a" :> [i \in 1..Len(sn.chain) |-> Deref(sn.chain[i], object)]),
   customMessages |-> EmptyMap, customAttributes |-> EmptyMap,
   stopOnFirstFailure |-> FALSE]

\* Variant of AfterRule that goes back to a rule that has just failed, up
\* to three messages.
AfterRule_Retries(sn, st, then) ==
  IF st.errorBag # sn.errorBag /\ Count(st.errorBag) < 3
  THEN [sn EXCEPT !.errorBag = st.errorBag, !.failedRules = st.failedRules, !.pc = "SetData"]
  ELSE [sn EXCEPT !.errorBag = st.errorBag, !.failedRules = st.failedRules,
                  !.i = IF then = "continue" THEN sn.i + 1 ELSE Len(sn.chain) + 1,
                  !.pc = IF then = "continue" /\ sn.i < Len(sn.chain) THEN "SetData" ELSE "done"]

\* The state of a goroutine that has finished the rule at position i.
AfterRule(sn, st, then) ==
  [sn EXCEPT !.errorBag = st.errorBag, !.failedRules = st.failedRules,
             !.i = IF then = "continue" THEN sn.i + 1 ELSE Len(sn.chain) + 1,
             !.pc = IF then = "continue" /\ sn.i < Len(sn.chain) THEN "SetData" ELSE "done"]

\* r := item; rules := {"a": r}; v1 := factory.Make(d1, rules);
\* v2 := factory.Make(d2, rules); go v1.Passes(); go v2.Passes()
MakeShared(item, d1, d2) ==
  /\ ~made /\ sessions = EmptyMap
  /\ sharedRule' = IF item.kind = "rule" THEN item.rule ELSE NoRule
  /\ sessions' = [s \in Sessions |->
       [data |-> IF s = 1 THEN d1 ELSE d2,
        chain |-> parseFieldRulesOf(item),
        errorBag |-> NewErrorBag, failedRules |-> EmptyMap,
        i |-> 1,
        pc |-> IF parseFieldRulesOf(item) = <<>> THEN "done" ELSE "SetData"]]
  /\ ret' = [op |-> "MakeShared"]
  /\ UNCHANGED <<factoryVars, cvRules, made, configVars, errorBag, failedRules,
                 stopOnFirstFailure, trace, rerun>>

\* runValidation of session s, lines 128-131: dataAware.SetData(v.data).
SessionSetData(s) ==
  /\ s \in DOMAIN sessions /\ sessions[s].pc = "SetData"
  /\ LET sn == sessions[s]
         entry == sn.chain[sn.i]
     IN IF entry.ref = "shared"
        THEN /\ sharedRule' = SetData(sharedRule, sn.data)
             /\ sessions' = [sessions EXCEPT ![s].pc = "Passes"]
        ELSE /\ sessions' = [sessions EXCEPT ![s].pc = "Passes",
                                             ![s].chain[sn.i].rule = SetData(entry.rule, sn.data)]
             /\ UNCHANGED sharedRule
  /\ UNCHANGED <<factoryVars, cvRules, made, configVars, errorBag, failedRules,
                 stopOnFirstFailure, trace, rerun, ret>>

\* runValidation of session s, lines 138-156: shouldValidateField,
\* rule.Passes, addFailure and the way the loop goes on.
SessionPasses(s) ==
  /\ s \in DOMAIN sessions /\ sessions[s].pc = "Passes"
  /\ LET sn == sessions[s]
         v == SessionV(sn, sharedRule)
         rule == Deref(sn.chain[sn.i], sharedRule)
         value == getValue(v, "a")
         st == [errorBag |-> sn.errorBag, failedRules |-> sn.failedRules]
     IN \E after \in {IF ~shouldValidateField(v, "a", value, rule)
                      THEN AfterRule(sn, st, "continue")
                      ELSE IF RulePasses(rule, "a", value)
                      THEN AfterRule(sn, st, "continue")
                      ELSE AfterRule(sn, addFailure(v, st, "a", rule), afterFailure(v, rule))} :
          sessions' = [sessions EXCEPT ![s] = after]
  /\ UNCHANGED <<factoryVars, cvRules, sharedRule, made, configVars, errorBag, failedRules,
                 stopOnFirstFailure, trace, rerun, ret>>

SharedItems ==
  {[kind |-> "string", text |-> t] : t \in {"same:b", "required|same:b", "different:b"}}
    \cup {[kind |-> "rule", rule |-> r] : r \in {SameRule("b"), DifferentRule(<<"b">>), RequiredRule}}

SharedData ==
  {("a" :> StrV("x")) @@ ("b" :> StrV("x")), ("a" :> StrV("x")) @@ ("b" :> StrV("y")),
   ("a" :> StrV("x")), EmptyMap}

NextShared ==
  \/ \E item \in SharedItems : \E d1, d2 \in SharedData : MakeShared(item, d1, d2)
  \/ \E s \in Sessions : SessionSetData(s)
  \/ \E s \in Sessions : SessionPasses(s)

SpecShared == Init /\ [][NextShared]_vars

\* The runs of two validators built from rule texts, step by step.
RunItems ==
  {[kind |-> "string", text |-> t] : t \in {"same:b|min:3", "min:1|same:b", "bogus"}}

RunData == {("a" :> StrV("x")) @@ ("b" :> StrV("x")), ("a" :> StrV("x"))}

SessionStep == \E s \in Sessions : SessionSetData(s) \/ SessionPasses(s)

NextRun ==
  \/ \E item \in RunItems : \E d1, d2 \in RunData : MakeShared(item, d1, d2)
  \/ SessionStep

\* A goroutine that can take a step of its run is eventually scheduled.
SpecRun == Init /\ [][NextRun]_vars /\ WF_vars(SessionStep)

(***************************************************************************)
(* Constraints that read a sibling field from the record.                  *)
(***************************************************************************)
RelationInputs ==
  {[data |-> p @@ c, rules |-> ("password" :> r1) @@ ("password_confirmation" :> r2)] :
     p \in {EmptyMap} \cup {("password" :> x) : x \in {StrV("s"), StrV("t")}},
     c \in {EmptyMap} \cup {("password_confirmation" :> y) : y \in {StrV("s"), StrV("t"), IntV(1)}},
     r1 \in {"confirmed", "required|confirmed", "different:password_confirmation",
             "different:x,password_confirmation", "same"},
     r2 \in {"same:password", "different:password", "required|same:password"}}

NextRelation ==
  \/ ~made /\ \E in \in RelationInputs : Make(in.data, in.rules, EmptyMap)
  \/ Passes
  \/ Fails
  \/ Errors

SpecRelation == Init /\ [][NextRelation]_vars

(***************************************************************************)
(* The closure engine: Validator.rules holds, per field, a ParseResult     *)
(* whose rules are closures over a ValidationContext.  A rule is modelled   *)
(* as the record [name, args] of the constructor that built the closure.   *)
(***************************************************************************)
\* The nil error.
Nil == "<nil>"

defaultNumericRules == {"numeric", "integer", "int", "decimal"}

\* isNumeric(str): the text matches ^-?\d+(\.\d+)?$
isNumeric(str) ==
  LET body == IF HasPrefix(str, "-") THEN Tail(str) ELSE str
      dot == Index(body, ".")
  IN IF dot = 0 THEN IsDigits(body)
     ELSE IsDigits(SubSeq(body, 1, dot - 1)) /\ IsDigits(SubSeq(body, dot + 1, Len(body)))

\* isInteger(str): the text matches ^-?\d+$
isInteger(str) == IsDigits(IF HasPrefix(str, "-") THEN Tail(str) ELSE str)

\* The length of the longest prefix of s made of digits.
DigitPrefixLen(s) ==
  Cardinality({i \in 1..Len(s) : \A j \in 1..i : IsDigit(CharAt(s, j))})

\* fmt.Sscanf(s, "%f", &num): [ok, v].  The scan takes an optional "-" and the
\* digits that follow and leaves the rest of the text unread; it fails when
\* there is no digit.  (No input holds ".", "+", "_" or a letter that can
\* continue a number: e, p, x, i, n.)
Sscanf(s) ==
  LET neg == HasPrefix(s, "-")
      body == IF neg THEN Tail(s) ELSE s
      n == DigitPrefixLen(body)
  IN IF n = 0 THEN [ok |-> FALSE, v |-> 0]
     ELSE [ok |-> TRUE,
           v |-> IF neg THEN 0 - DigitsToNat(SubSeq(body, 1, n))
                 ELSE DigitsToNat(SubSeq(body, 1, n))]

\* Variant of getSize without the sniff of the raw value: the value is a
\* number only once a numeric rule of the chain has run.
getSize_NoSniff(ctx) ==
  IF ctx.HasNumericRule /\ "numeric" \in ctx.memory
  THEN [size |-> Sscanf(ctx.FieldValue).v, memory |-> ctx.memory \cup {"numeric"}]
  ELSE [size |-> Len(ctx.FieldValue), memory |-> ctx.memory]

\* getSize(ctx): [size, memory], memory being ctx.memory after the call (the
\* set of the keys set to true).
getSize(ctx) ==
  IF ctx.HasNumericRule /\ ("numeric" \in ctx.memory \/ isNumeric(ctx.FieldValue))
  THEN [size |-> Sscanf(ctx.FieldValue).v, memory |-> ctx.memory \cup {"numeric"}]
  ELSE [size |-> Len(ctx.FieldValue), memory |-> ctx.memory]

\* ctx.GetValue(f) of the context Validate builds: [ok, v].
GetValue(vrules, value, f) ==
  IF f \notin DOMAIN value THEN [ok |-> FALSE, v |-> 0]
  ELSE IF f \in DOMAIN vrules /\ vrules[f].HasNumericRule /\ isNumeric(value[f])
       THEN [ok |-> TRUE, v |-> Sscanf(value[f]).v]
       ELSE [ok |-> TRUE, v |-> Len(value[f])]

\* What a rule closure returns, with ctx.memory after the call.
RuleResult(next, err, memory) == [next |-> next, err |-> err, memory |-> memory]

Accepted(val) == ToLower(val) \in {"yes", "on", "1", "true"}

\* The closure constructNumericRule returns.
numericRule(ctx) ==
  IF ~isNumeric(ctx.FieldValue)
  THEN RuleResult(FALSE, ctx.FieldName \o " must be a numeric value", ctx.memory)
  ELSE RuleResult(TRUE, Nil, ctx.memory \cup {"numeric"})

\* The closure constructIntergerRule returns.
integerRule(ctx) ==
  IF ~isInteger(ctx.FieldValue)
  THEN RuleResult(FALSE, ctx.FieldName \o " must be an integer value", ctx.memory)
  ELSE RuleResult(TRUE, Nil, ctx.memory \cup {"integer", "numeric"})

\* Variant of minRule that leaves the context's memory empty.
minRule_Forgets(args, ctx) ==
  LET minSize == Sscanf(args[1]).v
      actual == getSize(ctx)
  IN IF actual.size < minSize
     THEN RuleResult(FALSE, ctx.FieldName \o " must be at least " \o Itoa(minSize)
                              \o " in size", {})
     ELSE RuleResult(TRUE, Nil, {})

\* The closure constructMinRule returns.
minRule(args, ctx) ==
  LET minSize == Sscanf(args[1]).v
      actual == getSize(ctx)
  IN IF actual.size < minSize
     THEN RuleResult(FALSE, ctx.FieldName \o " must be at least " \o Itoa(minSize)
                              \o " in size", actual.memory)
     ELSE RuleResult(TRUE, Nil, actual.memory)

\* The closure Required returns.
requiredRule(ctx) ==
  IF TrimSpace(ctx.FieldValue) = ""
  THEN RuleResult(FALSE, ctx.FieldName \o " is required", ctx.memory)
  ELSE RuleResult(TRUE, Nil, ctx.memory)

\* The closure Nullable returns.
nullableRule(ctx) ==
  IF TrimSpace(ctx.FieldValue) = "" THEN RuleResult(FALSE, Nil, ctx.memory)
  ELSE RuleResult(TRUE, Nil, ctx.memory)

\* The closure constructAcceptedIfRule returns.
acceptedIfRule(args, ctx) ==
  LET otherField == args[1]
      expectedValues == Tail(args)
  IN IF otherField \notin DOMAIN ctx.Raw
     THEN RuleResult(FALSE, "the " \o otherField \o " field is not present", ctx.memory)
     ELSE IF \E i \in 1..Len(expectedValues) : ctx.Raw[otherField] = expectedValues[i]
          THEN IF Accepted(ctx.FieldValue) THEN RuleResult(TRUE, Nil, ctx.memory)
               ELSE RuleResult(FALSE, "the " \o ctx.FieldName
                                 \o " field must be accepted when " \o otherField
                                 \o " is " \o expectedValues[1], ctx.memory)
          ELSE RuleResult(TRUE, Nil, ctx.memory)

\* The closure constructGtRule returns.
gtRule(args, ctx, vrules) ==
  LET hasTargetField == args[1] \in DOMAIN ctx.Raw
      targetField == IF hasTargetField THEN ctx.Raw[args[1]] ELSE ""
      actual == getSize(ctx)
      fieldSize == actual.size
      target == GetValue(vrules, ctx.Raw, args[1])
      mustBe == ctx.FieldName \o " must be greater than "
      notAnOperand == "gt argument must be a field name or a numeric value"
  IN IF ~hasTargetField /\ isNumeric(ctx.FieldValue) /\ isNumeric(args[1])
     THEN IF fieldSize > Sscanf(args[1]).v THEN RuleResult(TRUE, Nil, actual.memory)
          ELSE RuleResult(FALSE, mustBe \o Itoa(Sscanf(args[1]).v), actual.memory)
     ELSE IF isNumeric(args[1]) THEN RuleResult(FALSE, notAnOperand, actual.memory)
     ELSE IF ctx.HasNumericRule /\ isNumeric(ctx.FieldValue) /\ isNumeric(targetField)
     THEN IF fieldSize > Sscanf(targetField).v THEN RuleResult(TRUE, Nil, actual.memory)
          ELSE RuleResult(FALSE, mustBe \o args[1], actual.memory)
     ELSE IF ~target.ok THEN RuleResult(FALSE, notAnOperand, actual.memory)
     ELSE IF fieldSize > target.v THEN RuleResult(TRUE, Nil, actual.memory)
     ELSE RuleResult(FALSE, mustBe \o args[1], actual.memory)

\* rule(ctx): the closure of a rule applied to the context.
applyRule(rule, ctx, vrules) ==
  CASE rule.name = "numeric" -> numericRule(ctx)
    [] rule.name \in {"integer", "int"} -> integerRule(ctx)
    [] rule.name = "min" -> minRule(rule.args, ctx)
    [] rule.name = "required" -> requiredRule(ctx)
    [] rule.name = "nullable" -> nullableRule(ctx)
    [] rule.name = "accepted_if" -> acceptedIfRule(rule.args, ctx)
    [] rule.name = "gt" -> gtRule(rule.args, ctx, vrules)

\* Variant of runRules that goes on to the next rule when a rule returns
\* next = false without an error.
RECURSIVE runRules_IgnoresNext(_, _, _, _)
runRules_IgnoresNext(vrules, ctx, rs, i) ==
  IF i > Len(rs) THEN Nil
  ELSE LET r == applyRule(rs[i], ctx, vrules)
       IN IF r.err # Nil THEN r.err
          ELSE runRules_IgnoresNext(vrules, [ctx EXCEPT !.memory = r.memory], rs, i + 1)

\* The loop of Validate over one field's rules from position i, with the
\* context's memory so far: the error that ends the run, or nil.
RECURSIVE runRules(_, _, _, _)
runRules(vrules, ctx, rs, i) ==
  IF i > Len(rs) THEN Nil
  ELSE LET r == applyRule(rs[i], ctx, vrules)
       IN IF r.err # Nil THEN r.err
          ELSE IF ~r.next THEN Nil
          ELSE runRules(vrules, [ctx EXCEPT !.memory = r.memory], rs, i + 1)

\* ctx.memory as each rule the loop of Validate calls leaves it, in order.
RECURSIVE memoryTrace(_, _, _, _)
memoryTrace(vrules, ctx, rs, i) ==
  IF i > Len(rs) THEN <<>>
  ELSE LET r == applyRule(rs[i], ctx, vrules)
       IN <<r.memory>> \o
          (IF r.err # Nil \/ ~r.next THEN <<>>
           ELSE memoryTrace(vrules, [ctx EXCEPT !.memory = r.memory], rs, i + 1))

\* The ValidationContext Validate builds for a field.
ValidationContext(vrules, value, field) ==
  [FieldName |-> field,
   FieldValue |-> IF field \in DOMAIN value THEN value[field] ELSE "",
   Raw |-> value,
   memory |-> {},
   HasNumericRule |-> vrules[field].HasNumericRule]

\* Validator.Validate(value) ranging over the fields in the given order.
RECURSIVE validateFields(_, _, _)
validateFields(vrules, value, order) ==
  IF order = <<>> THEN Nil
  ELSE LET field == Head(order)
           err == runRules(vrules, ValidationContext(vrules, value, field),
                           vrules[field].Rules, 1)
       IN IF err # Nil THEN err ELSE validateFields(vrules, value, Tail(order))

\* The names of the embedded constructor maps that the model covers.
embeddedRules == {"numeric", "integer", "int", "min", "gt", "required", "nullable", "accepted_if"}

\* The constructor of a rule: nil, or the error it returns for its arguments.
constructError(name, args) ==
  CASE name = "min" ->
         IF Len(args) < 1 THEN "min rule requires a minimum argument"
         ELSE IF ~Sscanf(args[1]).ok THEN "invalid minimum argument: " \o args[1]
         ELSE Nil
    [] name = "gt" ->
         IF Len(args) < 1 THEN "gt rule requires a minimum argument" ELSE Nil
    [] name = "accepted_if" ->
         IF Len(args) < 2 THEN "accepted_if rule requires at least 2 arguments" ELSE Nil
    [] OTHER -> Nil

\* One rule token of a field's text: its lower-cased name and its parameters.
invocation(token) ==
  LET parts == SplitN2(token, ":")
  IN [name |-> ToLower(TrimSpace(parts[1])),
      args |-> IF Len(parts) > 1 THEN parseParameters(parts[2]) ELSE <<>>]

IsToken(token) == TrimSpace(token) # ""

RECURSIVE invocations(_)
invocations(tokens) ==
  IF tokens = <<>> THEN <<>> ELSE <<invocation(Head(tokens))>> \o invocations(Tail(tokens))

\* The first error among the rules of a chain: an unknown name or the error
\* of a constructor; nil when every rule is built.
RECURSIVE chainError(_)
chainError(rs) ==
  IF rs = <<>> THEN Nil
  ELSE IF Head(rs).name \notin embeddedRules THEN "unknown rule: " \o Head(rs).name
  ELSE IF constructError(Head(rs).name, Head(rs).args) # Nil
       THEN constructError(Head(rs).name, Head(rs).args)
  ELSE chainError(Tail(rs))

\* The ParseResult of one field's rule text.
ParseResult(text) ==
  LET rs == invocations(SelectSeq(Split(text, "|"), IsToken))
  IN [Rules |-> rs,
      RuleNames |-> [i \in 1..Len(rs) |-> rs[i].name],
      HasNumericRule |-> \E i \in 1..Len(rs) : rs[i].name \in defaultNumericRules]

\* Building the closure Validator from the rule texts of the fields.
NewClosureValidator(texts) ==
  /\ ~made
  /\ cvRules = EmptyMap
  /\ LET parsed == [f \in DOMAIN texts |-> ParseResult(texts[f])]
         failing == {f \in DOMAIN texts : chainError(parsed[f].Rules) # Nil}
     IN IF failing = {}
        THEN /\ cvRules' = parsed
             /\ ret' = [op |-> "NewValidator", err |-> Nil]
        ELSE /\ \E f \in failing :
                  ret' = [op |-> "NewValidator", err |-> chainError(parsed[f].Rules)]
             /\ UNCHANGED cvRules
  /\ UNCHANGED <<factoryVars, heapVars, made, configVars, errorBag, failedRules,
                 stopOnFirstFailure, trace, rerun>>

\* Validator.Validate(value)
ValidatorValidate(value) ==
  /\ cvRules # EmptyMap
  /\ \E order \in Orders(DOMAIN cvRules) :
       ret' = [op |-> "Validator.Validate", value |-> value,
               err |-> validateFields(cvRules, value, order)]
  /\ UNCHANGED <<factoryVars, cvRules, heapVars, made, configVars, errorBag, failedRules,
                 stopOnFirstFailure, trace, rerun>>

ClosureChainTexts ==
  {"numeric|min:5", "min:5|numeric", "integer|min:5", "min:5|integer", "min:5",
   "nullable|min:5|numeric", "required|numeric|min:5", "min:abc", "bogus",
   "accepted_if:b,x", "gt:b", "numeric|gt:b", "gt:2", "numeric|gt:2"}

ClosureRuleInputs ==
  {("a" :> c) : c \in ClosureChainTexts}
  \cup {("a" :> c) @@ ("b" :> d) : c \in ClosureChainTexts, d \in {"numeric", "min:1"}}

ClosureValues ==
  {EmptyMap} \cup
  {a @@ b : a \in {EmptyMap} \cup {("a" :> x) : x \in {"", "10", "3", "-3", "abc", "abcdefg", "yes"}},
            b \in {EmptyMap} \cup {("b" :> y) : y \in {"10", "x", "2"}}}

NextClosure ==
  \/ \E texts \in ClosureRuleInputs : NewClosureValidator(texts)
  \/ \E value \in ClosureValues : ValidatorValidate(value)

SpecClosure == Init /\ [][NextClosure]_vars

(***************************************************************************)
(* Properties                                                              *)
(***************************************************************************)
\* The calls that always run the validation loop.
FullRunOps == {"Passes", "Fails", "Validate", "Valid", "Invalid"}

\* The latest call ran the loop, so errorBag and trace are those of that run
\* under the current configuration.
JustRan == made /\ ret.op \in FullRunOps

Resolved(f) == getValue(V, f)

BagOf(f) == IF f \in DOMAIN errorBag THEN errorBag[f] ELSE <<>>

TraceOf(f) == IF f \in DOMAIN trace THEN trace[f] ELSE <<>>

\* The positions of a field's chain at which the latest run recorded a failure.
FailedAt(f) == {i \in 1..Len(TraceOf(f)) : TraceOf(f)[i] = "failed"}

ImplicitFailedAt(f) == {i \in FailedAt(f) : IsImplicitRule(rules[f][i])}

\* C1: in a run, a non-implicit rule of a field whose resolved value is absent
\* or nil is not executed, and such a field gets no message from it: all its
\* messages come from implicit rules.
C1_NonImplicitSkippedOnNil ==
  \A f \in DOMAIN trace :
    IsNil(Resolved(f)) =>
      /\ \A i \in 1..Len(trace[f]) :
           ~IsImplicitRule(rules[f][i]) => trace[f][i] = "skipped"
      /\ Len(BagOf(f)) = Cardinality(ImplicitFailedAt(f))

\* A run over a field without a value whose chain has a non-implicit rule that
\* would fail on nil, directly after Factory.Make's validator ran.
C1_Witness ==
  /\ JustRan
  /\ \E f \in DOMAIN trace :
       /\ f \notin DOMAIN data
       /\ \E i \in 1..Len(trace[f]) :
            /\ rules[f][i].type = "AlphaNumRule"
            /\ trace[f][i] = "skipped"
       /\ f \notin DOMAIN errorBag
  /\ \E g \in DOMAIN trace :
       /\ Contains(g, ".") /\ IsNil(Resolved(g))
       /\ \E i \in 1..Len(trace[g]) :
            ~IsImplicitRule(rules[g][i]) /\ trace[g][i] = "skipped"

\* C2: an implicit rule is never skipped; required on a field whose value is
\* missing (or nil) fails and the field gets exactly one message; required on
\* a present 0 or false passes.
C2_ImplicitAlwaysRuns ==
  \A f \in DOMAIN trace :
    \A i \in 1..Len(trace[f]) :
      IsImplicitRule(rules[f][i]) =>
        /\ trace[f][i] # "skipped"
        /\ (rules[f][i].type = "RequiredRule" /\ IsNil(Resolved(f))) =>
             (trace[f][i] = "failed" /\ Len(BagOf(f)) = 1)
        /\ (rules[f][i].type = "RequiredRule" /\ Resolved(f) \in {IntV(0), BoolV(FALSE)}) =>
             trace[f][i] = "passed"

\* One run in which required failed on a field missing from the data and
\* passed on a present 0 and on a present false.
C2_Witness ==
  /\ JustRan
  /\ \E f \in DOMAIN trace :
       /\ f \notin DOMAIN data
       /\ Len(trace[f]) >= 1 /\ rules[f][1].type = "RequiredRule"
       /\ trace[f][1] = "failed"
       /\ Len(BagOf(f)) = 1
  /\ \E g \in DOMAIN trace :
       /\ Resolved(g) = IntV(0)
       /\ Len(trace[g]) >= 1 /\ rules[g][1].type = "RequiredRule"
       /\ trace[g][1] = "passed"

\* The names that have a case in the switch of parseRule, among those the
\* inputs use, with the Go type of the rule each one builds.
RegisteredTypes ==
  [required |-> "RequiredRule", string |-> "StringRule", boolean |-> "BooleanRule",
   bool |-> "BooleanRule", alpha_num |-> "AlphaNumRule", nullable |-> "NullableRule",
   sometimes |-> "SometimesRule", bail |-> "BailRule"]

\* The rule name of one "|"-separated part of a field's rule text.
NameOf(token) == ToLower(SplitN2(TrimSpace(token), ":")[1])

IsRegistered(token) == NameOf(token) \in DOMAIN RegisteredTypes

Tokens(f) == Split(spec[f], "|")

\* The parts of a field's rule text that name a registered rule, in order.
KnownTokens(f) == SelectSeq(Tokens(f), IsRegistered)

HasUnknownName(f) == \E i \in 1..Len(Tokens(f)) : ~IsRegistered(Tokens(f)[i])

JustBuilt == made /\ ret.op \in {"Make", "ValidateStruct"}

RuleFailsOn(f, i) ==
  /\ shouldValidateField(V, f, Resolved(f), rules[f][i])
  /\ ~RulePasses(rules[f][i], f, Resolved(f))

FailingRules(f) == {i \in 1..Len(rules[f]) : RuleFailsOn(f, i)}

AllFailed == UNION {{<<f, i>> : i \in FailedAt(f)} : f \in DOMAIN trace}

TwoFieldsTwoFailingRules ==
  \E f, g \in DOMAIN rules :
    f # g /\ Cardinality(FailingRules(f)) >= 2 /\ Cardinality(FailingRules(g)) >= 2

\* C4: after a run with StopOnFirstFailure set, at most one failure is
\* recorded; it is the last rule the run reached in its field; every other
\* field was either left untouched or went through its whole chain without a
\* failure before it; and when some rule fails, exactly one message is in the
\* ErrorBag, in particular for two failing fields of two failing rules each.
C4_StopOnFirstFailure ==
  (JustRan /\ stopOnFirstFailure) =>
    /\ Count(errorBag) <= 1
    /\ Cardinality(AllFailed) = Count(errorBag)
    /\ \A f \in DOMAIN trace :
         \A i \in FailedAt(f) :
           /\ i = Len(trace[f])
           /\ \A g \in DOMAIN trace \ {f} :
                Len(trace[g]) = Len(rules[g]) /\ FailedAt(g) = {}
    /\ (\E f \in DOMAIN rules : FailingRules(f) # {}) => Count(errorBag) = 1
    /\ TwoFieldsTwoFailingRules => Count(errorBag) = 1

\* A run with the flag set over two fields that each fail two rules: one
\* message, and a field the run never entered.
C4_Witness ==
  /\ JustRan /\ stopOnFirstFailure
  /\ TwoFieldsTwoFailingRules
  /\ Count(errorBag) = 1
  /\ \E f \in DOMAIN rules : f \notin DOMAIN trace
  /\ \E f \in DOMAIN trace : FailedAt(f) = {1} /\ Len(rules[f]) = 2

\* The place where the chain of f ends in a run that is not stopped: the
\* first implicit rule that fails, or the end of the chain.
ChainEnd(f) ==
  LET implicitFailing == {i \in FailingRules(f) : IsImplicitRule(rules[f][i])}
  IN IF implicitFailing = {} THEN Len(rules[f])
     ELSE CHOOSE i \in implicitFailing : \A j \in implicitFailing : i <= j

\* C5: a failed implicit rule is the last rule its field's chain reached in
\* the run, and nothing after it is recorded; without stop-on-first-failure
\* every field's chain is still processed up to its own end.
C5_ImplicitFailureEndsChain ==
  /\ \A f \in DOMAIN trace :
       \A i \in ImplicitFailedAt(f) :
         /\ i = Len(trace[f])
         /\ Len(BagOf(f)) = Cardinality({j \in FailedAt(f) : j <= i})
  /\ (JustRan /\ ~stopOnFirstFailure) =>
       /\ DOMAIN trace = DOMAIN rules
       /\ \A f \in DOMAIN rules : Len(trace[f]) = ChainEnd(f)

\* A run without the flag where required failed on an empty string, the
\* alpha_num after it (which fails on the empty string too) was not reached,
\* and the other field's two rules both ran and failed.
C5_Witness ==
  /\ JustRan /\ ~stopOnFirstFailure
  /\ \E f, g \in DOMAIN trace :
       /\ f # g
       /\ Resolved(f) = StrV("")
       /\ Len(rules[f]) = 2 /\ rules[f][2].type = "AlphaNumRule"
       /\ trace[f] = <<"failed">>
       /\ Len(BagOf(f)) = 1
       /\ trace[g] = <<"failed", "failed">>

\* The failing rules of f up to the end of its chain, in declared order.
RECURSIVE FailingUpTo(_, _)
FailingUpTo(f, n) ==
  IF n = 0 THEN <<>>
  ELSE FailingUpTo(f, n - 1) \o (IF RuleFailsOn(f, n) THEN <<n>> ELSE <<>>)

\* The message of every failing rule of f, in the order of the declaration.
DeclaredOrderMessages(f) ==
  LET failing == FailingUpTo(f, ChainEnd(f))
  IN [k \in 1..Len(failing) |-> getErrorMessage(V, f, rules[f][failing[k]])]

\* C6 as stated: after any run, every failing rule of a field's chain has its
\* message in the ErrorBag, in declared order.
C6_EveryFailureRecorded ==
  JustRan => \A f \in DOMAIN rules : BagOf(f) = DeclaredOrderMessages(f)

\* C6: in a run without stop-on-first-failure, a failing non-implicit rule
\* does not end its field's chain: every failing rule of the chain (up to a
\* failing implicit one) has its message in the ErrorBag, in declared order.
C6_FailuresRecordedUnlessStopped ==
  (JustRan /\ ~stopOnFirstFailure) =>
    \A f \in DOMAIN rules : BagOf(f) = DeclaredOrderMessages(f)

\* A field whose two rules, alpha_num then bool, both failed: two different
\* messages, the one of alpha_num first.
C6_Witness ==
  /\ JustRan /\ ~stopOnFirstFailure
  /\ \E f \in DOMAIN rules :
       /\ Len(rules[f]) = 2
       /\ rules[f][1].type = "AlphaNumRule" /\ rules[f][2].type = "BooleanRule"
       /\ trace[f] = <<"failed", "failed">>
       /\ Len(BagOf(f)) = 2
       /\ errorBag[f][1] = getErrorMessage(V, f, rules[f][1])
       /\ errorBag[f][2] = getErrorMessage(V, f, rules[f][2])
       /\ errorBag[f][1] # errorBag[f][2]

\* The messages of the failures the latest run recorded for f, in order.
RECURSIVE RunMessages(_, _)
RunMessages(f, n) ==
  IF n = 0 THEN <<>>
  ELSE RunMessages(f, n - 1) \o
       (IF TraceOf(f)[n] = "failed" THEN <<getErrorMessage(V, f, rules[f][n])>> ELSE <<>>)

\* C7: in every state the ErrorBag holds exactly the messages of the failures
\* of the most recent run, one per failed rule, whatever earlier runs
\* recorded; so it never holds more messages for a field than its chain has
\* rules.
C7_BagIsLatestRun ==
  made =>
    /\ DOMAIN errorBag = {f \in DOMAIN trace : FailedAt(f) # {}}
    /\ \A f \in DOMAIN rules :
         /\ BagOf(f) = RunMessages(f, Len(TraceOf(f)))
         /\ Len(BagOf(f)) <= Len(rules[f])

\* A run that started from a bag with messages of an earlier run and ended
\* with two messages.
C7_Witness ==
  /\ JustRan /\ rerun
  /\ ret.op = "Invalid"
  /\ Count(errorBag) = 2

\* C8: Passes returns true exactly when the run left no message, Fails the
\* opposite, and Validate returns an error exactly when the run left a
\* message, the error carrying the ErrorBag of that run.
C8_ResultsMatchBag ==
  made =>
    /\ ret.op = "Passes" => (ret.val <=> Count(errorBag) = 0)
    /\ ret.op = "Fails" => (ret.val <=> Count(errorBag) # 0)
    /\ ret.op = "Validate" =>
         /\ ret.err # NilError <=> Count(errorBag) # 0
         /\ ret.err # NilError =>
              /\ ret.err.Errors = errorBag
              /\ ret.err.Message = "The given data was invalid."

\* Validate returned an error that carries a bag of two messages.
C8_Witness ==
  /\ made /\ ret.op = "Validate"
  /\ ret.err # NilError
  /\ Count(ret.err.Errors) = 2
  /\ ret.err.Errors = errorBag

\* The position in the messages of f of the failure recorded for rule i.
MessageIndex(f, i) == Cardinality({j \in FailedAt(f) : j <= i})

\* The name under which rule i of the chain of f was written in the rule text.
WrittenName(f, i) == NameOf(KnownTokens(f)[i])

\* The message the precedence "<field>.<name>", "<name>", default selects.
TemplateByName(f, name, rule) ==
  IF (f \o "." \o name) \in DOMAIN customMessages THEN customMessages[f \o "." \o name]
  ELSE IF name \in DOMAIN customMessages THEN customMessages[name]
  ELSE RuleMessage(rule)

\* C9 as stated: the message recorded for a failing rule written n on field f
\* is the custom message keyed "f.n", else the one keyed "n", else the rule's
\* default, for every name of the rule grammar, alpha_num included.
C9_MessageByWrittenName ==
  made =>
    \A f \in DOMAIN trace :
      \A i \in FailedAt(f) :
        errorBag[f][MessageIndex(f, i)] =
          formatMessage(V, TemplateByName(f, WrittenName(f, i), rules[f][i]), f)

\* The key getErrorMessage looks a rule up under.
TypeKey(rule) == ToLower(TrimSuffix(TypeName(rule), "Rule"))

Display(f) == IF f \in DOMAIN customAttributes THEN customAttributes[f] ELSE f

\* C10: every recorded message is its template, custom or default, with each
\* :attribute replaced by the field's display name if one was supplied and by
\* the raw field name otherwise; no :attribute is left in it.
C10_AttributeReplaced ==
  made =>
    \A f \in DOMAIN trace :
      \A i \in FailedAt(f) :
        /\ errorBag[f][MessageIndex(f, i)] =
             ReplaceAll(TemplateByName(f, TypeKey(rules[f][i]), rules[f][i]),
                        ":attribute", Display(f))
        /\ ~Contains(errorBag[f][MessageIndex(f, i)], ":attribute")

\* A custom message carrying the display name of f1 next to a default message
\* carrying the raw name of f2.
C10_Witness ==
  /\ made
  /\ customAttributes = ("f1" :> "Email Address")
  /\ "f1.required" \in DOMAIN customMessages
  /\ BagOf("f1") = <<"Please enter your Email Address">>
  /\ BagOf("f2") = <<"The f2 field is required.">>

\* The value of element i (counted from 0) of the array under "users".
UserEmail(i) == data["users"].v[i + 1].v["email"]

\* The messages recorded under a key that addresses the users array.
UsersKeys == {f \in DOMAIN errorBag : SubSeq(f, 1, 6) = "users."}

\* C11: with a rule for users.*.email that has an email constraint, and a
\* two-element array in which only the second element's email is invalid, a
\* run records exactly one failure for the array, under users.1.email, and
\* none for element 0.
C11_WildcardPerElement ==
  (/\ JustRan
   /\ "users.*.email" \in DOMAIN rules
   /\ \E i \in 1..Len(rules["users.*.email"]) : rules["users.*.email"][i].type = "EmailRule"
   /\ EmailRulePasses(UserEmail(0))
   /\ ~EmailRulePasses(UserEmail(1)))
  => /\ UsersKeys = {"users.1.email"}
     /\ Len(errorBag["users.1.email"]) = 1

\* The value a dotted path addresses in a record: the walk through nested
\* records, one segment at a time; NilV when a segment is missing or an
\* intermediate value is not a record.
RECURSIVE PathValue(_, _)
PathValue(record, segments) ==
  IF Head(segments) \notin DOMAIN record THEN NilV
  ELSE IF Len(segments) = 1 THEN record[Head(segments)]
  ELSE IF record[Head(segments)].k # "map" THEN NilV
  ELSE PathValue(record[Head(segments)].v, Tail(segments))

\* C12: the value of a dotted field is the one the walk through the nested
\* records reaches, absent when an intermediate segment is missing or not a
\* record; when it is present, every rule of the field's chain the run
\* reaches is evaluated against it, and each failing one has its message
\* recorded for the field.
C12_DottedPathEvaluated ==
  JustRan =>
    \A f \in {g \in DOMAIN trace : Contains(g, ".") /\ ~Contains(g, "*")} :
      LET value == PathValue(data, Split(f, "."))
      IN /\ Resolved(f) = value
         /\ ~IsNil(value) =>
              /\ \A i \in 1..Len(trace[f]) :
                   trace[f][i] = IF RulePasses(rules[f][i], f, value)
                                 THEN "passed" ELSE "failed"
              /\ Len(BagOf(f)) = Cardinality(FailedAt(f))

\* The chain of f holds a rule that establishes the field as numeric.
NumericEstablished(f) ==
  \E i \in 1..Len(rules[f]) : rules[f][i].type \in {"IntegerRule", "NumericRule"}

\* The number a value denotes: a number itself, or the number a numeric
\* string such as "2020" spells.
Magnitude(value) == IF value.k = "int" THEN value.v ELSE ParseFloat(value.v).v

\* The size C13 states for the value of f: its numeric magnitude when the
\* chain establishes the field as numeric and the value is a number or a
\* numeric string, the character length of a string otherwise.
StatedSize(f) ==
  LET value == Resolved(f)
  IN IF value.k = "int" THEN value.v
     ELSE IF NumericEstablished(f) /\ ParseFloat(value.v).ok THEN Magnitude(value)
     ELSE Len(value.v)

\* C13 as stated: a min constraint that ran on a string or number passed
\* exactly when the stated size of the value, magnitude under a
\* numeric-establishing constraint and character length without one, is at
\* least the minimum.
C13_SizeByNumericFact ==
  \A f \in DOMAIN trace :
    \A i \in 1..Len(trace[f]) :
      (rules[f][i].type = "MinRule" /\ trace[f][i] # "skipped"
         /\ Resolved(f).k \in {"string", "int"})
        => (trace[f][i] = "passed" <=> StatedSize(f) >= rules[f][i].Min)

\* The latest call was Validator.Validate of the closure engine.
JustValidated == ret.op = "Validator.Validate"

SizeNames == {"min"}

\* A chain of two rules, one establishing the field as numeric and one size
\* constraint, in either order.
IsNumericSizePair(pr) ==
  /\ Len(pr.Rules) = 2
  /\ \E i, j \in 1..2 :
       /\ i # j
       /\ pr.Rules[i].name \in defaultNumericRules
       /\ pr.Rules[j].name \in SizeNames

Reversed(seq) == [i \in 1..Len(seq) |-> seq[Len(seq) + 1 - i]]

\* The rules of the validator with every numeric/size pair listed in the
\* other order.
Swapped(vrules) ==
  [f \in DOMAIN vrules |->
     IF IsNumericSizePair(vrules[f])
     THEN [vrules[f] EXCEPT !.Rules = Reversed(@), !.RuleNames = Reversed(@)]
     ELSE vrules[f]]

RecordVerdict(f, rule) ==
  LET value == Resolved(f)
      confirmation == IF rule.Field = "" THEN f \o "_confirmation" ELSE rule.Field
  IN CASE rule.type = "SameRule" ->
            rule.Field \in DOMAIN data /\ InterfaceEq(value, data[rule.Field])
       [] rule.type = "DifferentRule" ->
            \A i \in 1..Len(rule.Fields) :
              rule.Fields[i] \in DOMAIN data => ~InterfaceEq(value, data[rule.Fields[i]])
       [] rule.type = "ConfirmedRule" ->
            confirmation \in DOMAIN data /\ InterfaceEq(value, data[confirmation])

\* C15: every same, different or confirmed rule that a run executed decided
\* by the full input record, whatever fields the run had visited before it,
\* and the run's messages are those of every other order in which the fields
\* could have been iterated.
C15_SiblingFromFullRecord ==
  /\ \A f \in DOMAIN trace :
       \A i \in 1..Len(trace[f]) :
         (IsDataAwareRule(rules[f][i]) /\ trace[f][i] # "skipped")
           => (trace[f][i] = "passed" <=> RecordVerdict(f, rules[f][i]))
  /\ (JustRan /\ ~stopOnFirstFailure) =>
       \A order \in Orders(DOMAIN rules) :
         runValidation(V, errorBag, failedRules, order).errorBag = errorBag

\* A run in which same:password on password_confirmation passed and confirmed
\* on password passed too: each read the other field from the record, so one
\* of them read a field the loop had not yet visited.
C15_Witness ==
  /\ JustRan
  /\ "password" \in DOMAIN trace /\ "password_confirmation" \in DOMAIN trace
  /\ \E i \in 1..Len(trace["password"]) :
       rules["password"][i].type = "ConfirmedRule" /\ trace["password"][i] = "passed"
  /\ \E j \in 1..Len(trace["password_confirmation"]) :
       /\ rules["password_confirmation"][j].type = "SameRule"
       /\ trace["password_confirmation"][j] = "passed"

\* The constraints that name a trigger field as their first parameter.
TriggerNames == {"accepted_if"}

\* Every rule of the validator is a trigger-field constraint whose trigger
\* field is absent from the record.
AllTriggersAbsent(value) ==
  \A f \in DOMAIN cvRules :
    \A i \in 1..Len(cvRules[f].Rules) :
      /\ cvRules[f].Rules[i].name \in TriggerNames
      /\ cvRules[f].Rules[i].args[1] \notin DOMAIN value

\* C16 as stated: a record validated against trigger-field constraints whose
\* trigger fields are all absent is accepted, whatever the value of the
\* field under validation.
C16_AbsentTriggerPasses ==
  (JustValidated /\ AllTriggersAbsent(ret.value)) => ret.err = Nil

\* The size of field f of the record by that field's own rule: its numeric
\* magnitude when its own chain holds a numeric-establishing constraint and
\* the value is numeric, its character length otherwise.
OwnSize(value, f) ==
  IF f \in DOMAIN cvRules /\ cvRules[f].HasNumericRule /\ isNumeric(value[f])
  THEN Sscanf(value[f]).v
  ELSE Len(value[f])

\* The operand C17 states for a token: the size of the field it names when
\* the record holds such a field, the number it spells otherwise.
StatedOperand(value, token) ==
  IF token \in DOMAIN value THEN OwnSize(value, token) ELSE Sscanf(token).v

\* The chain of field "a" ends in a gt constraint, preceded at most by
\* numeric, and the chains of the other fields accept the record.
GtUnderTest(value) ==
  /\ "a" \in DOMAIN cvRules /\ "a" \in DOMAIN value
  /\ cvRules["a"].RuleNames \in {<<"gt">>, <<"numeric", "gt">>}
  /\ cvRules["a"].HasNumericRule => isNumeric(value["a"])
  /\ \A f \in DOMAIN cvRules \ {"a"} :
       runRules(cvRules, ValidationContext(cvRules, value, f), cvRules[f].Rules, 1) = Nil

GtToken == cvRules["a"].Rules[Len(cvRules["a"].Rules)].args[1]

\* C17 as stated: gt on field a accepts the record exactly when the size of
\* a exceeds the operand, the operand being the named field's value sized by
\* that field's own rule when the token names a field of the record, and the
\* literal the token spells otherwise.
C17_OperandFieldOrLiteral ==
  (JustValidated /\ GtUnderTest(ret.value)
     /\ (GtToken \in DOMAIN ret.value \/ isNumeric(GtToken)))
    => (ret.err = Nil <=> OwnSize(ret.value, "a") > StatedOperand(ret.value, GtToken))

\* A rule token that names a size constraint and gives it a parameter that
\* is not a number, such as min:abc.
IsMalformedSize(token) ==
  LET parts == SplitN2(token, ":")
  IN /\ ToLower(TrimSpace(parts[1])) \in SizeNames
     /\ Len(parts) > 1
     /\ ~ParseFloat(TrimSpace(parts[2])).ok

HasMalformedSize(f) == \E i \in 1..Len(Tokens(f)) : IsMalformedSize(Tokens(f)[i])

\* C18 as stated: building a validator from a specification that holds a size
\* constraint with a non-numeric parameter returns an error.
C18_MalformedSizeIsBuildError ==
  (JustBuilt /\ \E f \in DOMAIN spec : HasMalformedSize(f)) => ret.err # NilError

\* parts[1] of the rule token of field f, as parseRule sees it: the text
\* after the first colon of the trimmed token.
ParamTextOf(f) == SplitN2(TrimSpace(spec[f]), ":")[2]

HasParamText(f) == Len(SplitN2(TrimSpace(spec[f]), ":")) > 1

Quotes == {"\"", "'"}

\* The quote character that is open after the first i characters of a text,
\* "" when none is: a quote opens when none is open and is closed by the
\* next occurrence of the same character.
RECURSIVE OpenQuote(_, _)
OpenQuote(text, i) ==
  IF i = 0 THEN ""
  ELSE LET before == OpenQuote(text, i - 1)
           c == CharAt(text, i)
       IN IF before = "" THEN (IF c \in Quotes THEN c ELSE "")
          ELSE IF c = before THEN "" ELSE before

\* Character i opens or closes a quotation.
IsDelimiter(text, i) ==
  /\ CharAt(text, i) \in Quotes
  /\ OpenQuote(text, i - 1) \in {"", CharAt(text, i)}

\* Character i is a comma outside every quotation.
IsSeparator(text, i) == CharAt(text, i) = "," /\ OpenQuote(text, i - 1) = ""

\* The characters p..q of a text without the quotation delimiters.
RECURSIVE Unquoted(_, _, _)
Unquoted(text, p, q) ==
  IF p > q THEN ""
  ELSE (IF IsDelimiter(text, p) THEN "" ELSE CharAt(text, p)) \o Unquoted(text, p + 1, q)

Boundaries(text) == {0, Len(text) + 1} \cup {i \in 1..Len(text) : IsSeparator(text, i)}

\* The tokens of a text from boundary p on: the unquoted text between two
\* consecutive boundaries, trimmed, when it is not empty.
RECURSIVE StatedTokensFrom(_, _)
StatedTokensFrom(text, p) ==
  IF p = Len(text) + 1 THEN <<>>
  ELSE LET q == CHOOSE b \in Boundaries(text) :
                  b > p /\ \A r \in Boundaries(text) : r > p => b <= r
           raw == Unquoted(text, p + 1, q - 1)
       IN (IF raw = "" THEN <<>> ELSE <<TrimSpace(raw)>>) \o StatedTokensFrom(text, q)

\* C19: the parameters of a starts_with rule built by Factory.Make are the
\* pieces of the parameter text between the commas that lie outside
\* quotations, with the quotation delimiters removed, a quotation left open
\* running to the end of the text; starts_with:"a,b",c gives ["a,b", "c"].
C19_QuotedCommaKept ==
  /\ (JustBuilt /\ HasParamText("f1") /\ HasPrefix(spec["f1"], "starts_with:")) =>
       /\ Len(rules["f1"]) = 1
       /\ rules["f1"][1].type = "StartsWithRule"
       /\ rules["f1"][1].Prefixes = StatedTokensFrom(ParamTextOf("f1"), 0)
  /\ (JustBuilt /\ spec["f1"] \in {"starts_with:\"a,b\",c", "starts_with:'a,b',c"}) =>
       rules["f1"][1].Prefixes = <<"a,b", "c">>
  /\ (JustBuilt /\ spec["f1"] = "starts_with:\"a,b") =>
       rules["f1"][1].Prefixes = <<"a,b">>

\* Make built the starts_with rule of "a,b",c with the two parameters a,b and c.
C19_Witness ==
  /\ JustBuilt
  /\ spec["f1"] = "starts_with:\"a,b\",c"
  /\ rules["f1"][1].type = "StartsWithRule"
  /\ Len(rules["f1"][1].Prefixes) = 2
  /\ Contains(rules["f1"][1].Prefixes[1], ",")

\* The text between the delimiters of a pattern text: the text trimmed,
\* without its first and last character when both are "/".
Delimited(text) ==
  LET t == TrimSpace(text)
  IN IF Len(t) >= 2 /\ HasPrefix(t, "/") /\ HasSuffix(t, "/")
     THEN SubSeq(t, 2, Len(t) - 1) ELSE t

CommaCount(text) == Cardinality({i \in 1..Len(text) : CharAt(text, i) = ","})

PatternTextOf(f) == SplitN2(spec[f], ":")[2]

\* C21 as stated: the regex or not_regex rule built from a rule text that is
\* one pattern constraint receives the full pattern text, a pattern with an
\* alternation list such as /^(cat|dog)$/ included.
C21_AlternationKept ==
  (JustBuilt /\ (HasPrefix(spec["f1"], "regex:") \/ HasPrefix(spec["f1"], "not_regex:"))) =>
    /\ Len(rules["f1"]) = 1
    /\ rules["f1"][1].Pattern = Delimited(PatternTextOf("f1"))

\* The chain of f holds a rule of the given type.
ChainHolds(f, type) == \E i \in 1..Len(rules[f]) : rules[f][i].type = type

\* C22 as stated: in a run, a field whose chain holds bail has at most one
\* failed rule and at most one message, those of its first failing rule.
C22_BailStopsField ==
  \A f \in DOMAIN trace :
    ChainHolds(f, "BailRule") =>
      /\ Cardinality(FailedAt(f)) <= 1
      /\ Len(BagOf(f)) <= 1

\* C23 as stated: in a run, a field whose chain holds sometimes and that is
\* absent from the data gets no message, from implicit rules either.
C23_SometimesSkipsAbsent ==
  \A f \in DOMAIN trace :
    (ChainHolds(f, "SometimesRule") /\ f \notin DOMAIN data) => BagOf(f) = <<>>

\* C24 as stated: after a run in any mode, Valid() returns only fields the
\* run validated without a failure, and Invalid() only fields that failed.
C24_ValidOnlyValidated ==
  made =>
    /\ ret.op = "Valid" =>
         \A f \in DOMAIN ret.val : f \in DOMAIN trace /\ FailedAt(f) = {}
    /\ ret.op = "Invalid" =>
         \A f \in DOMAIN ret.val : FailedAt(f) # {}

\* The ErrorBag the validator of session s has after a run with no other
\* validator running.
AloneBag(s) ==
  runValidation(SessionV(sessions[s], sharedRule), NewErrorBag, EmptyMap, <<"a">>).errorBag

\* C25 as stated: of two validators built from one rules map and run
\* concurrently, each ends with the ErrorBag it has when run alone, also when
\* the map holds a Rule object built by the caller.
C25_SessionsIndependent ==
  \A s \in DOMAIN sessions :
    sessions[s].pc = "done" => sessions[s].errorBag = AloneBag(s)

\* The part of C25 that holds: validators built from rule texts own their
\* Rule objects and each ends with the ErrorBag it has when run alone.
C25_TextSessionsIndependent ==
  \A s \in DOMAIN sessions :
    (sessions[s].pc = "done" /\ \A i \in 1..Len(sessions[s].chain) : sessions[s].chain[i].ref = "own")
      => sessions[s].errorBag = AloneBag(s)

\* One step of the system as session s sees it: the position in the chain
\* never goes back, a call of Passes moves past its rule and adds at most one
\* message, nothing else adds a message, and a finished run does nothing.
RuleStep(s) ==
  LET before == sessions[s]
      after == sessions'[s]
  IN /\ after.i >= before.i
     /\ (before.pc = "Passes" /\ after # before) =>
          /\ after.i > before.i
          /\ Count(after.errorBag) <= Count(before.errorBag) + 1
     /\ before.pc # "Passes" => after.errorBag = before.errorBag
     /\ before.pc = "done" => after = before

AllDone == sessions # EmptyMap /\ \A s \in DOMAIN sessions : sessions[s].pc = "done"

\* C26: every run terminates, and within a run every rule of the chain is
\* evaluated at most once and adds at most one message; a failed rule is
\* never evaluated again.
C26_RunTerminatesEachRuleOnce ==
  /\ [][\A s \in DOMAIN sessions : RuleStep(s)]_vars
  /\ (sessions # EmptyMap) ~> AllDone

\* Both runs have ended, one of them after two rules of which the second failed.
C26_Witness ==
  /\ AllDone
  /\ \E s \in DOMAIN sessions :
       /\ Len(sessions[s].chain) = 2 /\ sessions[s].i = 3
       /\ Count(sessions[s].errorBag) = 1

\* The facts in the memory of the chain of f during the latest Validate.
MemoryOf(f) ==
  memoryTrace(cvRules, ValidationContext(cvRules, ret.value, f), cvRules[f].Rules, 1)

ValueOf(f) == IF f \in DOMAIN ret.value THEN ret.value[f] ELSE ""

\* C27: the chain of a field starts with no fact; a fact in its memory after
\* a rule is in its memory after every later rule of the chain; and a fact
\* in its memory was established on the field's own value, whatever the
\* chains of the other fields established.
C27_FactsPerFieldSticky ==
  JustValidated =>
    \A f \in DOMAIN cvRules :
      /\ ValidationContext(cvRules, ret.value, f).memory = {}
      /\ \A k \in 1..Len(MemoryOf(f)) : \A l \in k..Len(MemoryOf(f)) :
           MemoryOf(f)[k] \subseteq MemoryOf(f)[l]
      /\ \A k \in 1..Len(MemoryOf(f)) :
           /\ "numeric" \in MemoryOf(f)[k] =>
                cvRules[f].HasNumericRule /\ isNumeric(ValueOf(f))
           /\ "integer" \in MemoryOf(f)[k] =>
                isInteger(ValueOf(f)) /\ \E i \in 1..k : cvRules[f].RuleNames[i] \in {"integer", "int"}

\* integer establishes both facts for a, min keeps them, and the chain of b,
\* whose value is numeric too, ends without any fact.
C27_Witness ==
  /\ JustValidated /\ ret.err = Nil
  /\ DOMAIN cvRules = {"a", "b"}
  /\ MemoryOf("a") = <<{"integer", "numeric"}, {"integer", "numeric"}>>
  /\ cvRules["a"].RuleNames = <<"integer", "min">>
  /\ ValueOf("b") = "10" /\ MemoryOf("b") = <<{}>>

\* C28 as stated: the ErrorBag a run leaves is the same for every order in
\* which the loop may visit the fields, also with stopOnFirstFailure set.
C28_BagOrderIndependent ==
  JustRan =>
    \A order \in Orders(DOMAIN rules) :
      runValidation(V, NewErrorBag, EmptyMap, order).errorBag = errorBag

\* C29 as stated: whatever was called before, Errors() returns the bag of a
\* run over the validator's current rules and data.
C29_ErrorsIsFreshRun ==
  (made /\ ret.op = "Errors") =>
    \A order \in Orders(DOMAIN rules) :
      ret.val = runValidation(V, NewErrorBag, EmptyMap, order).errorBag

\* The error the chain of f returns on the record of the latest Validate.
ChainError(f) ==
  runRules(cvRules, ValidationContext(cvRules, ret.value, f), cvRules[f].Rules, 1)

\* The chain of a starts with nullable and the value of a is blank.
NullableSeesEmpty ==
  /\ "a" \in DOMAIN cvRules
  /\ Len(cvRules["a"].RuleNames) > 1
  /\ cvRules["a"].RuleNames[1] = "nullable"
  /\ TrimSpace(ValueOf("a")) = ""

\* C30: when nullable sees a blank value, the chain of that field ends there
\* without an error, and Validate returns what the chains of the other
\* fields return: nil exactly when none of them fails.
C30_NullableEndsOwnChainOnly ==
  (JustValidated /\ NullableSeesEmpty) =>
    /\ ChainError("a") = Nil
    /\ Len(MemoryOf("a")) = 1
    /\ ret.err = Nil <=> \A f \in DOMAIN cvRules \ {"a"} : ChainError(f) = Nil
    /\ ret.err # Nil => \E f \in DOMAIN cvRules \ {"a"} : ret.err = ChainError(f)

\* a is blank under nullable|min:5|numeric and Validate returns the error of
\* the numeric rule of b.
C30_Witness ==
  /\ JustValidated /\ NullableSeesEmpty
  /\ cvRules["a"].RuleNames = <<"nullable", "min", "numeric">>
  /\ "b" \in DOMAIN cvRules /\ ValueOf("b") = "x"
  /\ ret.err = "b must be a numeric value"

====
